---- MODULE Spec2Model ----
(***************************************************************************)
(* A model of easyshell's shell execution engine (src/easyshell/base.py,   *)
(* src/easyshell/basic_shell.py): the registry builder, the arity guard,   *)
(* line dispatch, the dispatch loop's exit-directive handling and the      *)
(* subshell launcher.                                                      *)
(*                                                                         *)
(* A Python str is a sequence of one-character strings, so that            *)
(* tokenizing, stripping and int() are computed and not assumed.           *)
(***************************************************************************)
EXTENDS Integers, Sequences, FiniteSets, TLC

VARIABLES
    sessions,     \* the chain of live sessions, root first; sessions[i] has depth i-1
    pc,           \* where control is: "reading" (in the loop of the deepest session),
                  \* "input" (waiting for its next line), "returning", "raising", "done",
                  \* "crashed", "aborted", "guard", "names", "batch_string", "registry"
    ret,          \* the value a terminated cmdloop() is returning to its caller
    exc,          \* the exception in flight, or that ended the program
    batch_mode,   \* _ShellBase.batch_mode
    last,         \* observer: the line last dispatched, the depth and the handler result used
    terminated,   \* observer: depths of the sessions terminated since the last dispatch, in order
    lret,         \* observer: what the last resumed launch_subshell() returned
    errs,         \* observer: writes to self.stderr since the last dispatch, in order
    called,       \* observer: whether the last dispatch invoked the decorated handler f
    saved,        \* observer: saved[i] is sessions[i] as it was just before it launched its child
    resumed,      \* observer: the saved record of the session that was last resumed
    guard,        \* the arity guard under test in SpecGuard: [nargs, n, result, errs, called]
    readline,     \* the editing facility: [completer, delims, history]
    fs,           \* the history folder: [dir, files], files maps a file name to its lines
    tty,          \* whether input() reads a terminal through the editing facility
    loops,        \* loops[i]: old_completer and old_delims of the cmdloop() of sessions[i]
    entered,      \* observer: entered[i] is the facility's completer and delimiters when
                  \* the cmdloop() of sessions[i] was called
    exited,       \* observer: the entered record of the loop that ended last
    pipe,         \* _ShellBase._pipe_end: [finite, lines]; the lines batch_string() sent
                  \* before it closed the sending end, or a sender that is never short
    driver,       \* the completion driver under test in SpecDriver: the line buffer, the
                  \* text and state readline passes, and what the call returned and wrote
    paths,        \* the prompt paths under test in SpecNames: [a, b, fa, fb], two frame
                  \* sequences and the history file names of the sessions that have them
    batch,        \* batch_string() in SpecPipe: [phase, todo, cap], the lines still to
                  \* send and the number of lines the pipe holds before send() blocks
    registry      \* session constructions in SpecRegistry: [phase, kept, built], the
                  \* dicts the builders filled last and what each construction gave

vars == <<sessions, pc, ret, exc, batch_mode, last, terminated, lret, errs, called,
          saved, resumed, guard, readline, fs, tty, loops, entered, exited, pipe, driver,
          paths, batch, registry>>

----------------------------------------------------------------------------
(* Bounds of the model *)

\* Subshells are launched only while the chain has fewer than MaxDepth + 1 sessions.
MaxDepth == 3
\* The arity guard is exercised with 0..MaxN arguments and rules over 0..MaxN.
MaxN == 3
\* At a terminal, a line is typed only while the history buffer holds at most
\* MaxHistory lines once the line is added.
MaxHistory == 2
\* A content in which every choice of lines occurs has at most MaxQueue lines.
MaxQueue == 3
\* The pipe of multiprocessing.Pipe() is a pair of sockets; a short line is one
\* message, and the sending socket takes messages until its buffer is used
\* up: MaxCapacity of them with the buffer size sockets have by default.
MaxCapacity == 278
MaxFrames == 2
\* A program constructs at most MaxBuilt sessions one after the other.
MaxBuilt == 2

----------------------------------------------------------------------------
(* Text *)

s_exit == <<"e","x","i","t">>
s_end == <<"e","n","d">>
s_root == <<"r","o","o","t">>
s_all == <<"a","l","l">>
s_stack == <<"s","t","a","c","k">>
s_history == <<"h","i","s","t","o","r","y">>
s_help == <<"h","e","l","p">>
s_bang == <<"!">>
s_sub == <<"s","u","b">>
s_maybe == <<"m","a","y","b","e">>
s_ret == <<"r","e","t">>
s_boom == <<"b","o","o","m">>
s_one == <<"o","n","e">>
s_dupc == <<"d","u","p","c">>
s_duph == <<"d","u","p","h">>
s_dupk == <<"d","u","p","k">>
s_nope == <<"n","o","p","e">>
s_x == <<"x">>
s_P == <<"P">>
s_D == <<"D">>
s_empty == <<>>
s_debug == <<"d","e","b","u","g">>
s_shell == <<"s","h","e","l","l">>
s_on == <<"o","n">>
s_off == <<"o","f","f">>
s_toggle == <<"t","o","g","g","l","e">>
s_kar == <<"k","a","r">>
s_context == <<"c","o","n","t","e","x","t">>
s_p == <<"p">>
s_e == <<"e">>
s_clear == <<"c","l","e","a","r">>
s_clearall == <<"c","l","e","a","r","a","l","l">>
s_karPROMPT == <<"k","a","r","P","R","O","M","P","T">>
s_DEBUG == <<"D","E","B","U","G">>
s_doc == <<"d","o","c">>
s_plain == <<"p","l","a","i","n">>
s_bare == <<"b","a","r","e">>
s_dark == <<"d","a","r","k">>
s_bad == <<"b","a","d">>
s_two == <<"t","w","o">>
s_foo == <<"f","o","o">>
s_fsh == <<"f","s","h">>
s_foo_prompt == <<"f","o","o","-","p","r","o","m","p","t">>
s_deprecated == <<"d","e","p","r","e","c","a","t","e","d">>
s_bye == <<"b","y","e">>
s_old == <<"o","l","d">>
s_again == <<"a","g","a","i","n">>

\* chr(ord('D') - 64), the one-character line cmdloop() substitutes on EOFError.
EOF == <<"^D">>

Digits == <<"0","1","2","3","4","5","6","7","8","9">>

IsDigit(c) == \E i \in 1..Len(Digits) : Digits[i] = c

DigitVal(c) == (CHOOSE i \in 1..Len(Digits) : Digits[i] = c) - 1

\* str(n) for 0 <= n <= 99.
IntStr(n) == IF n < 10 THEN <<Digits[n + 1]>> ELSE <<Digits[(n \div 10) + 1], Digits[(n % 10) + 1]>>

RECURSIVE DigitsValue(_, _, _)
DigitsValue(s, i, acc) ==
    IF i > Len(s) THEN acc ELSE DigitsValue(s, i + 1, acc * 10 + DigitVal(s[i]))

\* Whether int(s) succeeds: an optional sign and one or more decimal digits.
IsIntLiteral(s) ==
    LET body == IF Len(s) > 0 /\ s[1] \in {"-", "+"} THEN Tail(s) ELSE s
    IN  Len(body) > 0 /\ \A i \in 1..Len(body) : IsDigit(body[i])

\* int(s) where it succeeds.
IntOf(s) ==
    IF s[1] = "-" THEN 0 - DigitsValue(Tail(s), 1, 0)
    ELSE IF s[1] = "+" THEN DigitsValue(Tail(s), 1, 0)
    ELSE DigitsValue(s, 1, 0)

RECURSIVE LStrip(_)
LStrip(s) == IF s # <<>> /\ s[1] = " " THEN LStrip(Tail(s)) ELSE s

RECURSIVE RStrip(_)
RStrip(s) == IF s # <<>> /\ s[Len(s)] = " " THEN RStrip(SubSeq(s, 1, Len(s) - 1)) ELSE s

Strip(s) == RStrip(LStrip(s))

RECURSIVE SplitFrom(_, _, _, _)
SplitFrom(line, i, cur, acc) ==
    IF i > Len(line) THEN (IF cur = <<>> THEN acc ELSE Append(acc, cur))
    ELSE IF line[i] = " "
         THEN SplitFrom(line, i + 1, <<>>, IF cur = <<>> THEN acc ELSE Append(acc, cur))
         ELSE SplitFrom(line, i + 1, Append(cur, line[i]), acc)

\* shlex.split(line) on lines without quotes or escapes: the words between blanks.
shlex_split(line) == SplitFrom(line, 1, <<>>, <<>>)

RECURSIVE Join(_, _)
Join(sep, toks) ==
    IF toks = <<>> THEN <<>>
    ELSE IF Len(toks) = 1 THEN toks[1]
    ELSE toks[1] \o sep \o Join(sep, Tail(toks))

----------------------------------------------------------------------------
(* Python values a handler can return *)

Val(t, b, n, s) == [t |-> t, b |-> b, n |-> n, s |-> s]
PyNone == Val("None", FALSE, 0, <<>>)
PyBool(b) == Val("bool", b, 0, <<>>)
PyInt(n) == Val("int", FALSE, n, <<>>)
PyStr(s) == Val("str", FALSE, 0, s)
PyList == Val("list", FALSE, 0, <<>>)
PyDict == Val("dict", FALSE, 0, <<>>)

\* A list of strings, and the None that stands where a list is expected.
PyListOf(l) == [t |-> "list", l |-> l]
NoneList == [t |-> "None", l |-> <<>>]

\* bool(v)
Truthy(v) ==
    CASE v.t = "None" -> FALSE
      [] v.t = "bool" -> v.b
      [] v.t = "int" -> v.n # 0
      [] v.t = "str" -> v.s # <<>>
      [] OTHER -> FALSE

\* Whether hash(v) raises TypeError.
Unhashable(v) == v.t \in {"list", "dict"}

\* v == True, as Python compares: True == 1.
EqTrue(v) == (v.t = "bool" /\ v.b) \/ (v.t = "int" /\ v.n = 1)

EqStr(v, s) == v.t = "str" /\ v.s = s

\* v is True
IsTrue(v) == v.t = "bool" /\ v.b

----------------------------------------------------------------------------
(* Exceptions *)

\* An exception: its type and, for a registration conflict, the command name
\* and the two method names its message identifies.
Exc(type, cmd, first, second) == [type |-> type, cmd |-> cmd, first |-> first, second |-> second]
Error(type) == Exc(type, <<>>, "", "")
NoExc == Error("none")

\* Evaluating `raise PyShellError(...)`: base.py neither defines nor imports
\* PyShellError, so looking the name up raises NameError before the message
\* is formatted.
raise_PyShellError(cmd, first, second) == Error("NameError")

----------------------------------------------------------------------------
(* Shell types: the declarations the decorators attach to methods *)

NargsStr(s) == [k |-> "str", s |-> s, n |-> 0, l |-> {}]
NargsInt(n) == [k |-> "int", s |-> "", n |-> n, l |-> {}]
NargsList(l) == [k |-> "list", s |-> "", n |-> 0, l |-> l]

\* A method decorated by @command(*targets, visible, internal, nargs).
Command(name, targets, visible, internal, nargs, body) ==
    [name |-> name, kind |-> "command", targets |-> targets, visible |-> visible,
     internal |-> internal, nargs |-> nargs, body |-> body, sub |-> "-", deprecated |-> FALSE]

\* A method decorated by @subshell(shell_cls, *targets, **kwargs).
Subshell(name, shell_cls, targets, nargs, body) ==
    [name |-> name, kind |-> "command", targets |-> targets, visible |-> TRUE,
     internal |-> FALSE, nargs |-> nargs, body |-> body, sub |-> shell_cls, deprecated |-> FALSE]

\* A method decorated by @subshell(shell_cls, *targets, internal = True).
InternalSubshell(name, shell_cls, targets, nargs, body) ==
    [name |-> name, kind |-> "command", targets |-> targets, visible |-> TRUE,
     internal |-> TRUE, nargs |-> nargs, body |-> body, sub |-> shell_cls, deprecated |-> FALSE]

\* A method decorated by @helper(*targets).
Helper(name, targets) ==
    [name |-> name, kind |-> "helper", targets |-> targets, visible |-> FALSE,
     internal |-> FALSE, nargs |-> NargsStr("*"), body |-> "helper", sub |-> "-",
     deprecated |-> FALSE]

\* A method decorated by @completer(*targets).
Completer(name, targets) ==
    [name |-> name, kind |-> "completer", targets |-> targets, visible |-> FALSE,
     internal |-> FALSE, nargs |-> NargsStr("*"), body |-> "completer", sub |-> "-",
     deprecated |-> FALSE]

\* A method decorated by @deprecated above its other decorators.
Deprecated(obj) == [obj EXCEPT !.deprecated = TRUE]

\* The decorated methods BasicShell declares.
BasicShell ==
    { Command("_do_exec", <<s_bang>>, FALSE, TRUE, NargsStr("*"), "_do_exec"),
      Command("_do_exit", <<s_end, s_exit>>, TRUE, TRUE, NargsStr("?"), "_do_exit"),
      Completer("_complete_exit", <<s_exit>>),
      Command("_do_history", <<s_history>>, TRUE, TRUE, NargsStr("?"), "_do_history"),
      Completer("_complete_history", <<s_history>>),
      Command("_do_stack", <<s_stack>>, TRUE, TRUE, NargsStr("?"), "_do_stack"),
      Completer("_complete_stack", <<s_stack>>),
      Command("_do_help", <<s_help>>, TRUE, TRUE, NargsInt(0), "_do_help") }

\* A user shell: `sub` launches another ProbeShell, `maybe` launches one when
\* its handler returns a prompt rather than a falsy value, `ret` returns a value the
\* environment picks, `boom` raises, `one` takes exactly one argument, and
\* `dupc`, `duph`, `dupk` launch shell types with a name declared twice.
ProbeShell ==
    { Subshell("do_sub", "ProbeShell", <<s_sub>>, NargsStr("*"), "prompt_P"),
      Subshell("do_maybe", "ProbeShell", <<s_maybe>>, NargsStr("*"), "prompts"),
      Command("do_ret", <<s_ret>>, TRUE, FALSE, NargsStr("*"), "returns"),
      Command("do_boom", <<s_boom>>, TRUE, FALSE, NargsStr("*"), "raises"),
      Command("do_one", <<s_one>>, TRUE, FALSE, NargsInt(1), "returns"),
      Subshell("do_dupc", "DupCmdShell", <<s_dupc>>, NargsStr("*"), "prompt_D"),
      Subshell("do_duph", "DupHelperShell", <<s_duph>>, NargsStr("*"), "prompt_D"),
      Subshell("do_dupk", "DupCompleterShell", <<s_dupk>>, NargsStr("*"), "prompt_D") }

\* Two methods of one class registered for the command `x`.
DupCmdShell ==
    { Command("do_a", <<s_x>>, TRUE, FALSE, NargsStr("*"), "returns"),
      Command("do_b", <<s_x>>, TRUE, FALSE, NargsStr("*"), "returns") }

\* A method registered for `exit`, which the inherited _do_exit already serves.
DupInheritShell ==
    { Command("do_quit", <<s_exit>>, TRUE, FALSE, NargsStr("*"), "returns") }

\* Two helpers registered for the command `x`.
DupHelperShell == { Helper("help_a", <<s_x>>), Helper("help_b", <<s_x>>) }

\* A completer registered for `exit`, which the inherited _complete_exit already serves.
DupCompleterShell == { Completer("complete_quit", <<s_exit>>) }

\* shell._Shell: BasicShell with the `debug` command, which launches a
\* DebuggingShell when its handler returns a prompt.
Shell ==
    { InternalSubshell("_do_debug", "DebuggingShell", <<s_debug>>, NargsStr("*"), "_do_debug"),
      Completer("_complete_debug", <<s_debug>>) }

\* debugging_shell.DebuggingShell, which overrides parse_line.
DebuggingShell ==
    { Completer("_complete_print", <<s_p>>),
      Command("_do_print", <<s_p>>, TRUE, FALSE, NargsStr("*"), "_do_print"),
      Command("_do_eval", <<s_e>>, TRUE, FALSE, NargsStr("*"), "_do_eval") }

\* example_shell.KarShell, which overrides parse_line.
KarShell == { Command("do_p", <<s_p>>, TRUE, FALSE, NargsStr("*"), "do_p") }

\* example_shell.FooShell
FooShell ==
    { Subshell("do_kar", "KarShell", <<s_kar>>, NargsStr("*"), "do_kar"),
      Command("do_context", <<s_context>>, TRUE, FALSE, NargsStr("*"), "do_context") }

\* A user shell for the completion and help driver: `doc` has a doc string, a
\* helper and a completer, `plain` a doc string only, `bare` nothing, `dark` is
\* hidden, the helper and the completer of `bad` raise, and `sub` launches a
\* BasicShell.
HelpShell ==
    { Command("do_doc", <<s_doc>>, TRUE, FALSE, NargsStr("*"), "returns"),
      Helper("help_doc", <<s_doc>>),
      Completer("complete_doc", <<s_doc>>),
      Command("do_plain", <<s_plain>>, TRUE, FALSE, NargsStr("*"), "returns"),
      Command("do_bare", <<s_bare>>, TRUE, FALSE, NargsStr("*"), "returns"),
      Command("do_dark", <<s_dark>>, FALSE, FALSE, NargsStr("*"), "returns"),
      Command("do_bad", <<s_bad>>, TRUE, FALSE, NargsStr("*"), "returns"),
      Helper("help_bad", <<s_bad>>),
      Completer("complete_bad", <<s_bad>>),
      Subshell("do_child", "BasicShell", <<s_sub>>, NargsStr("*"), "prompt_P") }

\* A subclass of HelpShell that declares nothing, not even a doc string.
QuietShell == {}

\* A user shell written as example_shell.MyShell is: it overrides preloop()
\* and postloop() with hooks that print, `foo` and `fsh` launch a FooShell and
\* take no argument, and `deprecated` is marked @deprecated.
HookShell ==
    { Subshell("do_foo", "FooShell", <<s_foo, s_fsh>>, NargsInt(0), "do_foo"),
      Deprecated(Command("do_deprecated", <<s_deprecated>>, TRUE, FALSE, NargsInt(0),
                         "do_deprecated")) }

\* A user shell derived from HookShell: the handler of `bye` returns True,
\* `old` is the same handler marked @deprecated, and `again` takes exactly one
\* argument and launches another LegacyShell.
LegacyShell ==
    { Subshell("do_again", "LegacyShell", <<s_again>>, NargsInt(1), "prompt_P"),
      Command("do_bye", <<s_bye>>, TRUE, FALSE, NargsInt(0), "returns_True"),
      Deprecated(Command("do_old", <<s_old>>, TRUE, FALSE, NargsInt(0), "returns_True")) }

ShellTypes ==
    {"BasicShell", "ProbeShell", "DupCmdShell", "DupInheritShell", "DupHelperShell",
     "DupCompleterShell", "Shell", "DebuggingShell", "KarShell", "FooShell",
     "HelpShell", "QuietShell", "HookShell", "LegacyShell"}

\* cls.__dict__: the decorated methods the class body itself declares.
ClassOwn(cls) ==
    CASE cls = "BasicShell" -> BasicShell
      [] cls = "ProbeShell" -> ProbeShell
      [] cls = "DupCmdShell" -> DupCmdShell
      [] cls = "DupInheritShell" -> DupInheritShell
      [] cls = "DupHelperShell" -> DupHelperShell
      [] cls = "DupCompleterShell" -> DupCompleterShell
      [] cls = "Shell" -> Shell
      [] cls = "DebuggingShell" -> DebuggingShell
      [] cls = "KarShell" -> KarShell
      [] cls = "FooShell" -> FooShell
      [] cls = "HelpShell" -> HelpShell
      [] cls = "QuietShell" -> QuietShell
      [] cls = "HookShell" -> HookShell
      [] cls = "LegacyShell" -> LegacyShell
      [] OTHER -> {}

\* cls.__bases__[0]
ClassBase(cls) ==
    CASE cls = "BasicShell" -> "_ShellBase"
      [] cls = "_ShellBase" -> "object"
      [] cls \in {"KarShell", "FooShell", "HookShell"} -> "Shell"
      [] cls = "QuietShell" -> "HelpShell"
      [] cls = "LegacyShell" -> "HookShell"
      [] OTHER -> "BasicShell"

\* The method names of all shell types in the order sorted() gives them.
AttrOrder ==
    << "_complete_debug", "_complete_exit", "_complete_history", "_complete_print",
       "_complete_stack", "_do_debug", "_do_eval", "_do_exec", "_do_exit", "_do_help",
       "_do_history", "_do_print", "_do_stack", "complete_bad", "complete_doc",
       "complete_quit", "do_a", "do_again", "do_b", "do_bad", "do_bare", "do_boom",
       "do_bye", "do_child", "do_context", "do_dark", "do_deprecated", "do_doc", "do_dupc",
       "do_duph", "do_dupk", "do_foo", "do_kar", "do_maybe", "do_old", "do_one", "do_p",
       "do_plain", "do_quit", "do_ret", "do_sub", "help_a", "help_b", "help_bad", "help_doc" >>

RECURSIVE HasAttr(_, _)
HasAttr(cls, name) ==
    IF cls = "_ShellBase" THEN FALSE
    ELSE (\E a \in ClassOwn(cls) : a.name = name) \/ HasAttr(ClassBase(cls), name)

\* getattr(cls, name): the class's own method, else the nearest base's.
RECURSIVE Getattr(_, _)
Getattr(cls, name) ==
    IF \E a \in ClassOwn(cls) : a.name = name
    THEN CHOOSE a \in ClassOwn(cls) : a.name = name
    ELSE Getattr(ClassBase(cls), name)

\* dir(cls), restricted to decorated methods: inherited names included, sorted.
Dir(cls) == SelectSeq(AttrOrder, LAMBDA name : HasAttr(cls, name))

----------------------------------------------------------------------------
(* Registry Builder *)

EmptyMap == [c \in {} |-> ""]

\* The (command name, method) pairs the nested loops of a builder visit, in order.
RECURSIVE PairsFrom(_, _, _, _)
PairsFrom(cls, kind, names, acc) ==
    IF names = <<>> THEN acc
    ELSE LET obj == Getattr(cls, names[1])
             more == IF obj.kind = kind
                     THEN [i \in 1..Len(obj.targets) |-> [cmd |-> obj.targets[i], obj |-> obj]]
                     ELSE <<>>
         IN  PairsFrom(cls, kind, Tail(names), acc \o more)

RECURSIVE CmdMapsFrom(_, _, _, _, _)
CmdMapsFrom(pairs, i, all, vis, int) ==
    IF i > Len(pairs)
    THEN [ok |-> TRUE, all |-> all, visible |-> vis, internal |-> int, exc |-> NoExc]
    ELSE LET cmd == pairs[i].cmd
             obj == pairs[i].obj
         IN  IF cmd \in DOMAIN all
             THEN [ok |-> FALSE, all |-> all, visible |-> vis, internal |-> int,
                   exc |-> raise_PyShellError(cmd, all[cmd], obj.name)]
             ELSE CmdMapsFrom(pairs, i + 1,
                              all @@ (cmd :> obj.name),
                              IF obj.visible THEN vis @@ (cmd :> obj.name) ELSE vis,
                              IF obj.internal THEN int @@ (cmd :> obj.name) ELSE int)

\* The five dicts of the three builders, empty.
NewMaps ==
    [all |-> EmptyMap, visible |-> EmptyMap, internal |-> EmptyMap, helper |-> EmptyMap,
     completer |-> EmptyMap]

\* builder_locals with the dicts kept on the class: a call goes on filling
\* the dicts the call before it filled.
builder_locals_class_level(kept) == kept

\* `cmd_map_all = {}`, `cmd_map_visible = {}`, `cmd_map_internal = {}` and
\* `ret = {}`: the dicts are locals, and every call of a builder binds new
\* ones, whatever dicts the call before it filled.
builder_locals(kept) == NewMaps

\* The loops of __build_cmd_maps over dicts that hold start.
build_cmd_maps_from(cls, start) ==
    CmdMapsFrom(PairsFrom(cls, "command", Dir(cls), <<>>), 1,
                start.all, start.visible, start.internal)

\* _ShellBase.__build_cmd_maps
build_cmd_maps(cls) == build_cmd_maps_from(cls, NewMaps)

RECURSIVE MapFrom(_, _, _)
MapFrom(pairs, i, m) ==
    IF i > Len(pairs) THEN [ok |-> TRUE, map |-> m, exc |-> NoExc]
    ELSE LET cmd == pairs[i].cmd
             obj == pairs[i].obj
         IN  IF cmd \in DOMAIN m
             THEN [ok |-> FALSE, map |-> m, exc |-> raise_PyShellError(cmd, m[cmd], obj.name)]
             ELSE MapFrom(pairs, i + 1, m @@ (cmd :> obj.name))

\* The loops of __build_helper_map over a dict that holds start.helper.
build_helper_map_from(cls, start) ==
    MapFrom(PairsFrom(cls, "helper", Dir(cls), <<>>), 1, start.helper)

\* _ShellBase.__build_helper_map
build_helper_map(cls) == build_helper_map_from(cls, NewMaps)

\* The loops of __build_completer_map over a dict that holds start.completer.
build_completer_map_from(cls, start) ==
    MapFrom(PairsFrom(cls, "completer", Dir(cls), <<>>), 1, start.completer)

\* _ShellBase.__build_completer_map
build_completer_map(cls) == build_completer_map_from(cls, NewMaps)

\* The three builder calls of one __init__, each over the dicts start gives it.
RegistryFrom(cls, start) ==
    [c |-> build_cmd_maps_from(cls, start), h |-> build_helper_map_from(cls, start),
     k |-> build_completer_map_from(cls, start)]

\* The dicts as the builder calls of one __init__ leave them: a builder that
\* raises leaves its dict as far as it was filled, and the builders after it
\* are not called.
LeftBy(reg, start) ==
    [all |-> reg.c.all, visible |-> reg.c.visible, internal |-> reg.c.internal,
     helper |-> IF reg.c.ok THEN reg.h.map ELSE start.helper,
     completer |-> IF reg.c.ok /\ reg.h.ok THEN reg.k.map ELSE start.completer]

\* No session construction is under test.
NoRegistry == [phase |-> "off", kept |-> NewMaps, built |-> <<>>]

\* A ModeFrame: _ShellBase._Mode. shell is the depth of the parent session.
Mode(shell, cmd, args, prompt, context) ==
    [shell |-> shell, cmd |-> cmd, args |-> args, prompt |-> prompt, context |-> context]

\* The maps of every shell type. The builders read nothing but the class, so
\* each session construction of a type computes the same result.
Registry ==
    [cls \in ShellTypes |->
        [c |-> build_cmd_maps(cls), h |-> build_helper_map(cls), k |-> build_completer_map(cls)]]

\* _ShellBase.__init__ from the builders' results on: the session object, or the
\* exception that construction raises. The three builders run in this order;
\* the first to raise ends construction.
ShellFrom(cls, debug, mode_stack, root_prompt, reg) ==
    IF ~reg.c.ok THEN [ok |-> FALSE, exc |-> reg.c.exc, shell |-> [cls |-> cls]]
    ELSE IF ~reg.h.ok THEN [ok |-> FALSE, exc |-> reg.h.exc, shell |-> [cls |-> cls]]
    ELSE IF ~reg.k.ok THEN [ok |-> FALSE, exc |-> reg.k.exc, shell |-> [cls |-> cls]]
    ELSE [ok |-> TRUE, exc |-> NoExc,
          shell |-> [cls |-> cls, debug |-> debug, mode_stack |-> mode_stack,
                     root_prompt |-> root_prompt,
                     cmd_map_all |-> reg.c.all, cmd_map_visible |-> reg.c.visible,
                     cmd_map_internal |-> reg.c.internal, helper_map |-> reg.h.map,
                     completer_map |-> reg.k.map, completion_candidates |-> PyListOf(<<>>)]]

\* _ShellBase.__init__
ShellInit(cls, debug, mode_stack, root_prompt) ==
    ShellFrom(cls, debug, mode_stack, root_prompt, Registry[cls])

\* len(self._mode_stack)
Depth(self) == Len(self.mode_stack)

\* _ShellBase.prompt
Prompt(self) ==
    <<"(">> \o Join(<<"-">>, <<self.root_prompt>> \o [i \in 1..Len(self.mode_stack) |-> self.mode_stack[i].prompt])
            \o <<")", "$", " ">>

\* _ShellBase.history_fname, without the folder: 's-' + self.prompt[1:-2].
history_fname(self) == <<"s", "-">> \o SubSeq(Prompt(self), 2, Len(Prompt(self)) - 2)

----------------------------------------------------------------------------
(* The editing facility (readline) and the history folder *)

\* readline.get_completer_delims() before any session has changed it. The
\* grave accent is taken out of a two-character literal: a string literal
\* cannot hold it without an apostrophe after it.
default_delims ==
    {" ", "\t", "\n", SubSeq("`'", 1, 1), "~", "!", "@", "#", "$", "%", "^", "&", "*", "(",
     ")", "-", "=", "+", "[", "{", "]", "}", "\\", "|", ";", ":", "'", "\"", ",", "<", ">",
     "/", "?"}

\* _ShellBase._non_delims
non_delims == {"-", "/", "\\", "~"}

\* readline.get_completer() before any session has set one.
no_completer == 0 - 1

NoFiles == [f \in {} |-> <<>>]

Env(rl, files) == [rl |-> rl, fs |-> files]

\* What input() leaves in the history buffer h for the line typed: at a
\* terminal the facility adds a non-empty line that differs from the last one.
input_history(h, raw) ==
    IF ~tty \/ batch_mode \/ raw = EOF \/ raw = <<>> THEN h
    ELSE IF h # <<>> /\ h[Len(h)] = raw THEN h
    ELSE Append(h, raw)

\* The environment once input() has returned the line.
input_env(raw) == Env([readline EXCEPT !.history = input_history(readline.history, raw)], fs)

\* readline.write_history_file(self.history_fname), which needs the folder.
write_history_file(self, env) ==
    Env(env.rl, [env.fs EXCEPT !.files =
                    [f \in DOMAIN env.fs.files \cup {history_fname(self)} |->
                        IF f = history_fname(self) THEN env.rl.history ELSE env.fs.files[f]]])

\* load_history without the clear and the read.
load_history_skipped(self, env) == env

\* readline.clear_history(), then read_history_file if os.path.isfile.
load_history(self, env) ==
    Env([env.rl EXCEPT !.history =
            IF history_fname(self) \in DOMAIN env.fs.files
            THEN env.fs.files[history_fname(self)] ELSE <<>>],
        env.fs)

\* The locals cmdloop() saves on entry.
loop_saved(env) == [old_completer |-> env.rl.completer, old_delims |-> env.rl.delims]

\* cmdloop() up to the main loop: the delimiters lose _non_delims, the
\* session's __driver_stub becomes the completer and the session's history
\* file, if there is one, becomes the buffer.
cmdloop_enter(self, env) ==
    load_history(self, Env([env.rl EXCEPT !.delims = env.rl.delims \ non_delims,
                                          !.completer = Depth(self)],
                           env.fs))

\* cmdloop_finally without readline.set_completer(old_completer).
cmdloop_finally_keeps_completer(self, loop, env) ==
    IF env.fs.dir
    THEN write_history_file(self, Env([env.rl EXCEPT !.delims = loop.old_delims], env.fs))
    ELSE env

\* cmdloop_finally without readline.set_completer_delims(old_delims).
cmdloop_finally_keeps_delims(self, loop, env) ==
    IF env.fs.dir
    THEN write_history_file(self, Env([env.rl EXCEPT !.completer = loop.old_completer], env.fs))
    ELSE Env([env.rl EXCEPT !.completer = loop.old_completer], env.fs)

\* The finally block of cmdloop(): the completer is restored, the buffer is
\* written to the session's history file, the delimiters are restored. A
\* failing write leaves the block before the delimiters are restored.
cmdloop_finally(self, loop, env) ==
    IF env.fs.dir
    THEN write_history_file(self, Env([env.rl EXCEPT !.completer = loop.old_completer,
                                                     !.delims = loop.old_delims], env.fs))
    ELSE Env([env.rl EXCEPT !.completer = loop.old_completer], env.fs)

\* do_history_env without the os.makedirs after the shutil.rmtree.
do_history_env_no_makedirs(self, args, env) ==
    IF args # <<>> /\ args[1] = s_clear
    THEN IF env.fs.dir
         THEN write_history_file(self, Env([env.rl EXCEPT !.history = <<>>], env.fs))
         ELSE Env([env.rl EXCEPT !.history = <<>>], env.fs)
    ELSE IF args # <<>> /\ args[1] = s_clearall
    THEN Env([env.rl EXCEPT !.history = <<>>], [dir |-> FALSE, files |-> NoFiles])
    ELSE IF env.fs.dir THEN write_history_file(self, env) ELSE env

\* BasicShell._do_history on the editing facility and the folder: `clear`
\* empties the buffer and the session's file, `clearall` empties the buffer
\* and replaces the folder by an empty one, anything else writes the buffer out.
do_history_env(self, args, env) ==
    IF args # <<>> /\ args[1] = s_clear
    THEN IF env.fs.dir
         THEN write_history_file(self, Env([env.rl EXCEPT !.history = <<>>], env.fs))
         ELSE Env([env.rl EXCEPT !.history = <<>>], env.fs)
    ELSE IF args # <<>> /\ args[1] = s_clearall
    THEN Env([env.rl EXCEPT !.history = <<>>], [dir |-> TRUE, files |-> NoFiles])
    ELSE IF env.fs.dir THEN write_history_file(self, env) ELSE env

----------------------------------------------------------------------------
(* Handlers *)

\* What calling a handler does: it returns v, raises exc, or (a @subshell
\* handler that returned a prompt) asks launch_subshell for a child of type sub.
\* err lists the writes to self.stderr; called tells whether the decorated
\* function f itself ran.
Out(k, v, err, is_called, sub, prompt, e) ==
    [k |-> k, v |-> v, err |-> err, called |-> is_called, sub |-> sub, prompt |-> prompt,
     exc |-> e]
Return(v, err, is_called) == Out("return", v, err, is_called, "-", <<>>, NoExc)
Raise(e, err, is_called) == Out("raise", PyNone, err, is_called, "-", <<>>, e)

\* do_exit with a write() whose result has a format method: after the message
\* for `end`, control falls through to the statements for `exit`.
do_exit_format_returns(self, cmd, args) ==
    IF cmd = s_end /\ args = <<>> THEN Return(PyStr(s_root), <<>>, TRUE)
    ELSE IF args = <<>> THEN Return(PyBool(TRUE), <<>>, TRUE)
    ELSE IF args[1] = s_root
         THEN Return(PyStr(s_root), IF cmd = s_end THEN <<"end: unrecognized arguments">> ELSE <<>>, TRUE)
    ELSE IF args[1] = s_all
         THEN Return(PyStr(s_all), IF cmd = s_end THEN <<"end: unrecognized arguments">> ELSE <<>>, TRUE)
    ELSE Return(PyNone, <<"exit: unrecognized arguments">>, TRUE)

\* BasicShell._do_exit. self.stderr.write(...) returns the number of characters
\* written, so the .format() applied to its result raises AttributeError after
\* the message is written.
do_exit(self, cmd, args) ==
    IF cmd = s_end /\ args = <<>> THEN Return(PyStr(s_root), <<>>, TRUE)
    ELSE IF cmd = s_end
         THEN Raise(Error("AttributeError"), <<"end: unrecognized arguments">>, TRUE)
    ELSE IF args = <<>> THEN Return(PyBool(TRUE), <<>>, TRUE)
    ELSE IF Len(args) > 1
         THEN Raise(Error("AttributeError"), <<"exit: too many arguments">>, TRUE)
    ELSE IF args[1] = s_root THEN Return(PyStr(s_root), <<>>, TRUE)
    ELSE IF args[1] = s_all THEN Return(PyStr(s_all), <<>>, TRUE)
    ELSE Raise(Error("AttributeError"), <<"exit: unrecognized arguments">>, TRUE)

\* BasicShell.__dump_stack: the root line is written, then the first frame is
\* asked for mode.prompt_display, an attribute _Mode does not have.
dump_stack(self) ==
    IF Len(self.mode_stack) = 0 THEN Return(PyNone, <<>>, TRUE)
    ELSE Raise(Error("AttributeError"), <<>>, TRUE)

\* BasicShell._do_stack
do_stack(self, cmd, args) ==
    IF args = <<>> THEN dump_stack(self)
    ELSE IF Len(args) > 1 THEN Return(PyNone, <<"stack: too many arguments">>, TRUE)
    ELSE IF ~IsIntLiteral(args[1])
         THEN Return(PyNone, <<"stack: depth is not an integer">>, TRUE)
    ELSE IF IntOf(args[1]) < 0 THEN Return(PyNone, <<"stack: negative depth">>, TRUE)
    ELSE Return(PyInt(IntOf(args[1])), <<>>, TRUE)

\* BasicShell._do_exec
do_exec(self, cmd, args) ==
    IF args = <<>> THEN Return(PyNone, <<"execute: empty command">>, TRUE)
    ELSE Return(PyNone, <<>>, TRUE)

\* shell._Shell._do_debug: only `debug shell` returns a prompt.
do_debug(self, cmd, args) ==
    IF args = <<>> THEN Return(PyNone, <<>>, TRUE)
    ELSE IF Len(args) > 1 THEN Return(PyNone, <<"debug: too many arguments">>, TRUE)
    ELSE IF args[1] = s_shell THEN Return(PyStr(s_DEBUG), <<>>, TRUE)
    ELSE IF args[1] \in {s_on, s_off, s_toggle} THEN Return(PyNone, <<>>, TRUE)
    ELSE Return(PyNone, <<"debug: unrecognized argument">>, TRUE)

\* self.debug once _do_debug has run.
do_debug_self(self, args) ==
    IF Len(args) # 1 THEN self
    ELSE IF args[1] = s_on THEN [self EXCEPT !.debug = TRUE]
    ELSE IF args[1] = s_off THEN [self EXCEPT !.debug = FALSE]
    ELSE IF args[1] = s_toggle THEN [self EXCEPT !.debug = ~self.debug]
    ELSE self

\* example_shell.FooShell.do_kar
do_kar(self, cmd, args) == Return(PyStr(s_karPROMPT \o Join(<<"@">>, args)), <<>>, TRUE)

\* example_shell.FooShell.do_context: self.context reads the last mode frame,
\* which a session with an empty mode stack does not have.
do_context(self, cmd, args) ==
    IF self.mode_stack = <<>> THEN Raise(Error("IndexError"), <<>>, TRUE)
    ELSE Return(PyNone, <<>>, TRUE)

\* Whether eval(code) succeeds for the words of the model: an integer literal
\* or the builtin name `all`.
eval_ok(code) == IsIntLiteral(code) \/ code = s_all

\* debugging_shell.DebuggingShell._do_eval: whatever eval raises is caught and reported.
do_eval(self, cmd, args) ==
    IF args = <<>> THEN Raise(Error("IndexError"), <<>>, TRUE)
    ELSE IF LStrip(args[1]) = <<>>
         THEN Return(PyNone, <<"e: cannot evalutate empty expression">>, TRUE)
    ELSE IF eval_ok(Strip(args[1])) THEN Return(PyNone, <<>>, TRUE)
    ELSE Return(PyNone, <<"When executing code", "traceback">>, TRUE)

\* debugging_shell.DebuggingShell._do_print: only NameError is caught.
do_print(self, cmd, args) ==
    IF args = <<>> THEN Raise(Error("IndexError"), <<>>, TRUE)
    ELSE IF Strip(args[1]) = <<>>
         THEN Return(PyNone, <<"TODO: Display names of inspectable objects.">>, TRUE)
    ELSE IF eval_ok(Strip(args[1])) THEN Return(PyNone, <<>>, TRUE)
    ELSE IF Len(shlex_split(args[1])) > 1 THEN Raise(Error("SyntaxError"), <<>>, TRUE)
    ELSE Return(PyNone, <<"p: name is not defined">>, TRUE)

\* BasicShell._do_history: the writes to the history file fail without the folder.
do_history(self, cmd, args) ==
    IF args # <<>> /\ args[1] = s_clearall THEN Return(PyNone, <<>>, TRUE)
    ELSE IF ~fs.dir THEN Raise(Error("OSError"), <<>>, TRUE)
    ELSE Return(PyNone, <<>>, TRUE)

\* The decorated function f of a command: the built-in handlers, and the user
\* handlers, whose result is the environment's choice `oracle`.
HandlerBody(self, obj, cmd, args, oracle) ==
    CASE obj.body = "_do_exit" -> do_exit(self, cmd, args)
      [] obj.body = "_do_stack" -> do_stack(self, cmd, args)
      [] obj.body = "_do_exec" -> do_exec(self, cmd, args)
      [] obj.body = "_do_history" -> do_history(self, cmd, args)
      [] obj.body = "_do_debug" -> do_debug(self, cmd, args)
      [] obj.body = "_do_eval" -> do_eval(self, cmd, args)
      [] obj.body = "_do_print" -> do_print(self, cmd, args)
      [] obj.body = "do_kar" -> do_kar(self, cmd, args)
      [] obj.body = "do_context" -> do_context(self, cmd, args)
      [] obj.body \in {"returns", "prompts"} -> Return(oracle, <<>>, TRUE)
      [] obj.body = "raises" -> Raise(Error("RuntimeError"), <<>>, TRUE)
      [] obj.body = "prompt_P" -> Return(PyStr(s_P), <<>>, TRUE)
      [] obj.body = "prompt_D" -> Return(PyStr(s_D), <<>>, TRUE)
      [] obj.body = "do_foo" -> Return(PyStr(s_foo_prompt), <<>>, TRUE)
      [] obj.body = "do_deprecated" -> Return(PyNone, <<>>, TRUE)
      [] obj.body = "returns_True" -> Return(PyBool(TRUE), <<>>, TRUE)
      [] OTHER -> Return(PyNone, <<>>, TRUE)

\* subshell_after without the `if not retval: return`.
subshell_after_unconditional(obj, r) ==
    IF r.k = "raise" THEN r
    ELSE Out("launch", PyNone, r.err, TRUE, obj.sub, r.v.s, NoExc)

\* subshell.decorated_func.inner_func once f has run with outcome r: a falsy
\* result launches nothing.
subshell_after(obj, r) ==
    IF r.k = "raise" THEN r
    ELSE IF ~Truthy(r.v) THEN Return(PyNone, r.err, TRUE)
    ELSE Out("launch", PyNone, r.err, TRUE, obj.sub, r.v.s, NoExc)

\* subshell.decorated_func.inner_func
subshell_inner_func(self, obj, cmd, args, oracle) ==
    subshell_after(obj, HandlerBody(self, obj, cmd, args, oracle))

\* arity_ok with n > 0 for n > 1 in the '?' rule.
arity_ok_strict_optional(nargs, n) ==
    CASE nargs.k = "str" /\ nargs.s = "*" -> TRUE
      [] nargs.k = "str" /\ nargs.s = "?" -> ~(n > 0)
      [] nargs.k = "str" /\ nargs.s = "+" -> ~(n = 0)
      [] nargs.k = "int" -> ~(n # nargs.n)
      [] OTHER -> n \in nargs.l

\* The nargs test of command.decorated_func.inner_func: whether n arguments pass.
arity_ok(nargs, n) ==
    CASE nargs.k = "str" /\ nargs.s = "*" -> TRUE
      [] nargs.k = "str" /\ nargs.s = "?" -> ~(n > 1)
      [] nargs.k = "str" /\ nargs.s = "+" -> ~(n = 0)
      [] nargs.k = "int" -> ~(n # nargs.n)
      [] OTHER -> n \in nargs.l

\* inner_func with the nargs test applied to plain commands only.
inner_func_subshell_unguarded(self, obj, cmd, args, oracle) ==
    IF obj.sub # "-" THEN subshell_inner_func(self, obj, cmd, args, oracle)
    ELSE IF ~arity_ok(obj.nargs, Len(args)) THEN Return(PyNone, <<"arity">>, FALSE)
    ELSE HandlerBody(self, obj, cmd, args, oracle)

\* command.decorated_func.inner_func
inner_func(self, obj, cmd, args, oracle) ==
    IF ~arity_ok(obj.nargs, Len(args))
    THEN Return(PyNone, <<"arity">>, FALSE)
    ELSE IF obj.sub # "-" THEN subshell_inner_func(self, obj, cmd, args, oracle)
         ELSE HandlerBody(self, obj, cmd, args, oracle)

\* deprecated.inner_func once the function it wraps is over with outcome r:
\* the notice was printed before the call, and the result of the call is not
\* returned.
deprecated_inner_func(r) == IF r.k = "return" THEN Return(PyNone, r.err, r.called) ELSE r

\* getattr(self, name)(cmd, args): the method as its decorators left it. No
\* @subshell method of the shell types here is marked @deprecated.
method(self, obj, cmd, args, oracle) ==
    IF obj.deprecated THEN deprecated_inner_func(inner_func(self, obj, cmd, args, oracle))
    ELSE inner_func(self, obj, cmd, args, oracle)

----------------------------------------------------------------------------
(* Line dispatch *)

\* _ShellBase.parse_line
parse_line(self, line) ==
    LET toks == shlex_split(line)
    IN  [cmd |-> toks[1], args |-> IF Len(toks) = 1 THEN <<>> ELSE Tail(toks)]

\* example_shell.KarShell.parse_line: the first character, and the rest as a str.
KarShell_parse_line(self, line) == [cmd |-> <<line[1]>>, args |-> Tail(line)]

\* The line without the first Len(cmd) characters.
after_cmd(line, cmd) == SubSeq(line, Len(cmd) + 1, Len(line))

\* debugging_shell.DebuggingShell.parse_line: the first word, and everything
\* after it as one argument.
DebuggingShell_parse_line(self, line) ==
    [cmd |-> shlex_split(LStrip(line))[1],
     args |-> <<after_cmd(LStrip(line), shlex_split(LStrip(line))[1])>>]

\* self.parse_line(line): the override of the session's class, if it has one.
self_parse_line(self, line) ==
    CASE self.cls = "KarShell" -> KarShell_parse_line(self, line)
      [] self.cls = "DebuggingShell" -> DebuggingShell_parse_line(self, line)
      [] OTHER -> parse_line(self, line)

\* A resolved command: its name, its arguments and the branch of
\* __exec_line__ that produced them.
Resolved(via, parsed) == [cmd |-> parsed.cmd, args |-> parsed.args, via |-> via]

\* toks[0], toks[1:] as __exec_line__ takes them for an internal command.
internal_parse(toks) == [cmd |-> toks[1], args |-> IF Len(toks) > 1 THEN Tail(toks) ELSE <<>>]

\* resolve with the internal test applied to what self.parse_line returns.
resolve_override_first(self, line) ==
    IF line = EOF THEN Resolved("eof", [cmd |-> s_exit, args |-> <<>>])
    ELSE IF self_parse_line(self, line).cmd \in DOMAIN self.cmd_map_internal
         THEN Resolved("internal", internal_parse(shlex_split(line)))
    ELSE Resolved("parse_line", self_parse_line(self, line))

\* resolve without the branch for the end-of-input line.
resolve_eof_as_text(self, line) ==
    IF shlex_split(line)[1] \in DOMAIN self.cmd_map_internal
    THEN Resolved("internal", internal_parse(shlex_split(line)))
    ELSE Resolved("parse_line", self_parse_line(self, line))

\* The command name and arguments __exec_line__ resolves for a line with tokens.
resolve(self, line) ==
    IF line = EOF THEN Resolved("eof", [cmd |-> s_exit, args |-> <<>>])
    ELSE IF shlex_split(line)[1] \in DOMAIN self.cmd_map_internal
         THEN Resolved("internal", internal_parse(shlex_split(line)))
    ELSE Resolved("parse_line", self_parse_line(self, line))

\* Whether __exec_line__ returns before resolving a command.
is_noop_line(line) ==
    \/ line = <<>>
    \/ (RStrip(line) # <<>> /\ RStrip(line)[1] = "#")
    \/ shlex_split(line) = <<>>

\* exec_resolved without the message for an unknown command.
exec_resolved_silent(self, r, oracle) ==
    IF r.cmd \notin DOMAIN self.cmd_map_all
    THEN Return(PyNone, <<>>, FALSE)
    ELSE method(self, Getattr(self.cls, self.cmd_map_all[r.cmd]), r.cmd, r.args, oracle)

\* __exec_line__ once the command name and arguments r are resolved.
exec_resolved(self, r, oracle) ==
    IF r.cmd \notin DOMAIN self.cmd_map_all
    THEN Return(PyNone, <<"command not found">>, FALSE)
    ELSE method(self, Getattr(self.cls, self.cmd_map_all[r.cmd]), r.cmd, r.args, oracle)

\* _ShellBase.__exec_line__
exec_line(self, line, oracle) ==
    IF is_noop_line(line) THEN Return(PyNone, <<>>, FALSE)
    ELSE exec_resolved(self, resolve(self, line), oracle)

\* The values the environment may let a user handler return for this line.
ReturnValues ==
    {PyNone, PyBool(FALSE), PyBool(TRUE), PyStr(<<>>), PyStr(s_root), PyStr(s_all),
     PyStr(s_x), PyList, PyDict} \cup {PyInt(n) : n \in 0..(MaxDepth + 1)}

\* The values the environment may let the handler of `maybe` return: the
\* falsy values, or the prompt of the subshell.
PromptValues ==
    {PyNone, PyBool(FALSE), PyInt(0), PyStr(<<>>), PyList, PyDict, PyStr(s_P)}

OraclesResolved(self, r) ==
    IF r.cmd \notin DOMAIN self.cmd_map_all THEN {PyNone}
    ELSE IF Getattr(self.cls, self.cmd_map_all[r.cmd]).body = "returns" THEN ReturnValues
    ELSE IF Getattr(self.cls, self.cmd_map_all[r.cmd]).body = "prompts" THEN PromptValues
    ELSE {PyNone}

Oracles(self, line) ==
    IF is_noop_line(line) THEN {PyNone} ELSE OraclesResolved(self, resolve(self, line))

NoCmd == [cmd |-> <<>>, args |-> <<>>, via |-> "noop"]

\* What __exec_line__ resolved for the line, if it got that far.
resolution(self, line) == IF is_noop_line(line) THEN NoCmd ELSE resolve(self, line)

\* The session once the handler of the resolved command has run.
self_after_resolved(self, r) ==
    IF r.cmd \in DOMAIN self.cmd_map_all
       /\ Getattr(self.cls, self.cmd_map_all[r.cmd]).body = "_do_debug"
    THEN do_debug_self(self, r.args)
    ELSE self

\* The editing facility and the folder once the handler of the resolved
\* command has run: only _do_history, past its arity guard, touches them.
env_after_resolved(self, r, env) ==
    IF r.cmd \in DOMAIN self.cmd_map_all
       /\ Getattr(self.cls, self.cmd_map_all[r.cmd]).body = "_do_history"
       /\ arity_ok(Getattr(self.cls, self.cmd_map_all[r.cmd]).nargs, Len(r.args))
    THEN do_history_env(self, r.args, env)
    ELSE env

\* __exec_line__ from the resolution r of the line on.
exec_from(self, r, oracle) ==
    IF r.via = "noop" THEN Return(PyNone, <<>>, FALSE) ELSE exec_resolved(self, r, oracle)

\* The session once __exec_line__ has run on the line.
self_after(self, line) ==
    IF is_noop_line(line) THEN self ELSE self_after_resolved(self, resolve(self, line))

----------------------------------------------------------------------------
(* Dispatch loop and subshell launcher *)

\* cmdloop_decide with the `self._mode_stack and` of the 'root' test left out.
cmdloop_decide_root_leaves(self, exit_directive) ==
    IF exit_directive.t = "int" /\ Depth(self) > exit_directive.n THEN "break"
    ELSE IF exit_directive.t = "int" /\ Depth(self) = exit_directive.n THEN "continue"
    ELSE IF EqStr(exit_directive, s_root) THEN "break"
    ELSE IF Unhashable(exit_directive) THEN "raise"
    ELSE IF EqStr(exit_directive, s_all) \/ EqTrue(exit_directive) THEN "break"
    ELSE "continue"

\* cmdloop_decide with 'all' tested together with 'root', under `self._mode_stack and`.
cmdloop_decide_all_absorbed(self, exit_directive) ==
    IF exit_directive.t = "int" /\ Depth(self) > exit_directive.n THEN "break"
    ELSE IF exit_directive.t = "int" /\ Depth(self) = exit_directive.n THEN "continue"
    ELSE IF Depth(self) > 0 /\ (EqStr(exit_directive, s_root) \/ EqStr(exit_directive, s_all))
         THEN "break"
    ELSE IF Unhashable(exit_directive) THEN "raise"
    ELSE IF EqTrue(exit_directive) THEN "break"
    ELSE "continue"

\* cmdloop_decide with >= for > in the depth test.
cmdloop_decide_off_by_one(self, exit_directive) ==
    IF exit_directive.t = "int" /\ Depth(self) >= exit_directive.n THEN "break"
    ELSE IF Depth(self) > 0 /\ EqStr(exit_directive, s_root) THEN "break"
    ELSE IF Unhashable(exit_directive) THEN "raise"
    ELSE IF EqStr(exit_directive, s_all) \/ EqTrue(exit_directive) THEN "break"
    ELSE "continue"

\* cmdloop_decide with the integer tests skipped for 0, as `if exit_directive` would.
cmdloop_decide_zero_ignored(self, exit_directive) ==
    IF exit_directive.t = "int" /\ exit_directive.n = 0 THEN "continue"
    ELSE IF exit_directive.t = "int" /\ Depth(self) > exit_directive.n THEN "break"
    ELSE IF exit_directive.t = "int" /\ Depth(self) = exit_directive.n THEN "continue"
    ELSE IF Depth(self) > 0 /\ EqStr(exit_directive, s_root) THEN "break"
    ELSE IF Unhashable(exit_directive) THEN "raise"
    ELSE IF EqStr(exit_directive, s_all) \/ EqTrue(exit_directive) THEN "break"
    ELSE "continue"

\* cmdloop_decide with True not among the directives that end the loop.
cmdloop_decide_true_ignored(self, exit_directive) ==
    IF exit_directive.t = "int" /\ Depth(self) > exit_directive.n THEN "break"
    ELSE IF exit_directive.t = "int" /\ Depth(self) = exit_directive.n THEN "continue"
    ELSE IF Depth(self) > 0 /\ EqStr(exit_directive, s_root) THEN "break"
    ELSE IF Unhashable(exit_directive) THEN "raise"
    ELSE IF EqStr(exit_directive, s_all) THEN "break"
    ELSE "continue"

\* The tests cmdloop() applies to exit_directive after a line: leave the loop
\* ("break"), read the next line ("continue"), or fail in evaluating
\* `exit_directive in {'all', True}` ("raise").
cmdloop_decide(self, exit_directive) ==
    IF exit_directive.t = "int" /\ Depth(self) > exit_directive.n THEN "break"
    ELSE IF exit_directive.t = "int" /\ Depth(self) = exit_directive.n THEN "continue"
    ELSE IF Depth(self) > 0 /\ EqStr(exit_directive, s_root) THEN "break"
    ELSE IF Unhashable(exit_directive) THEN "raise"
    ELSE IF EqStr(exit_directive, s_all) \/ EqTrue(exit_directive) THEN "break"
    ELSE "continue"

\* launch_return without the `is True` test: the child's directive as it is.
launch_return_unconverted(exit_directive) == exit_directive

\* What launch_subshell() returns for the directive its child's cmdloop() returned.
launch_return(exit_directive) == IF ~IsTrue(exit_directive) THEN exit_directive ELSE PyNone

\* child_mode_stack without the new frame.
child_mode_stack_unextended(self, mode) == self.mode_stack

\* The mode stack launch_subshell() gives the child.
child_mode_stack(self, mode) == self.mode_stack \o <<mode>>

\* parent_after_launch with the frame appended to the parent's own list.
parent_after_launch_shared(self, mode) == [self EXCEPT !.mode_stack = Append(@, mode)]

\* The launching session once launch_subshell() has built the child: unchanged.
parent_after_launch(self, mode) == self

----------------------------------------------------------------------------
(* Inputs *)

CommandWords ==
    {s_exit, s_end, s_stack, s_sub, s_maybe, s_ret, s_boom, s_one, s_dupc, s_duph, s_dupk,
     s_nope}

\* Blank lines, comment lines, and lines with a '#' that is not the first character.
MarginLines ==
    { <<>>, <<" ">>, <<"#">>, <<"#", " ", "x">>, <<" ", "#">>, <<" ", "#", " ", "x">>,
      <<"x", " ", "#">>, <<" ", "e", "x", "i", "t">> }

\* Lines for the shells of shell.py, example_shell.py and debugging_shell.py.
ShellLines ==
    {Join(<<" ">>, <<s_debug, a>>) : a \in {s_shell, s_on, s_off, s_toggle, s_x}}
    \cup {Join(<<" ">>, <<s_history, a>>) : a \in {s_clear, s_clearall, s_x}}
    \cup {Join(<<" ">>, <<c, s_x>>) : c \in {s_kar, s_p, s_e}}
    \cup {Join(<<" ">>, <<s_debug, s_on, s_x>>), Join(<<" ">>, <<s_history, s_clear, s_x>>),
          Join(<<" ">>, <<s_e, s_empty, s_x>>), Join(<<" ">>, <<s_p, s_x, s_x>>),
          s_p \o s_x, Join(<<" ">>, <<s_e, IntStr(1)>>)}

ArgWords ==
    {s_root, s_all, s_x, <<"-", "1">>} \cup {IntStr(n) : n \in 0..(MaxDepth + 1)}

\* The lines typed: a command word alone; the navigation commands with every
\* argument word, and the other commands with the argument x; the commands
\* with an arity rule with two arguments; and the end-of-input line.
Lines ==
    {c : c \in CommandWords}
    \cup {Join(<<" ">>, <<c, a>>) : c \in {s_exit, s_end, s_stack}, a \in ArgWords}
    \cup {Join(<<" ">>, <<c, s_x>>) : c \in {s_sub, s_ret, s_boom, s_one, s_nope}}
    \cup {Join(<<" ">>, <<c, a, s_x>>) : c \in {s_exit, s_end, s_stack, s_one},
                                         a \in {s_root, IntStr(1)}}
    \cup {EOF}

\* The lines typed to the shells of example_shell.py.
FooLines ==
    {s_debug, s_kar, s_context, s_p, s_e, s_history, s_exit, s_nope}
    \cup {Join(<<" ">>, <<s_exit, s_root>>), Join(<<" ">>, <<s_exit, s_all>>),
          Join(<<" ">>, <<s_stack, IntStr(1)>>)}
    \cup MarginLines
    \cup ShellLines
    \cup {EOF}

\* The lines typed to HookShell, to the shell derived from it and to the
\* FooShell that `foo` launches.
HookLines ==
    {s_foo, s_deprecated, s_bye, s_old, s_again, s_exit, s_nope}
    \cup {Join(<<" ">>, <<c, s_x>>) : c \in {s_foo, s_fsh, s_old, s_again}}
    \cup {Join(<<" ">>, <<s_exit, s_all>>), EOF}

RootTypes ==
    {"ProbeShell", "FooShell", "DupCmdShell", "DupInheritShell", "DupHelperShell",
     "DupCompleterShell"}

\* The lines typed at a terminal.
HistoryLines ==
    {s_sub, s_exit, s_nope, Join(<<" ">>, <<s_history, s_clear>>),
     Join(<<" ">>, <<s_history, s_clearall>>), EOF}

\* The arity rules and argument counts the guard is exercised with.
ArityRules ==
    {NargsStr(s) : s \in {"*", "?", "+"}} \cup {NargsInt(n) : n \in 0..MaxN}
    \cup {NargsList(l) : l \in SUBSET (0..MaxN)}

----------------------------------------------------------------------------
(* State *)

NoLine == [line |-> <<>>, depth |-> 0, cls |-> "-", k |-> "none", v |-> PyNone,
           cmd |-> <<>>, args |-> <<>>, via |-> "none"]

\* The observer's record of a dispatched line.
Line(self, line, r, k, v) ==
    [line |-> line, depth |-> Depth(self), cls |-> self.cls, k |-> k, v |-> v,
     cmd |-> r.cmd, args |-> r.args, via |-> r.via]
NoGuard == [phase |-> "off", nargs |-> NargsStr("*"), n |-> 0, oracle |-> PyNone,
            result |-> PyNone, errs |-> <<>>, called |-> FALSE]
NoShell == [cls |-> "-"]

Top == sessions[Len(sessions)]

\* The receiving end of a pipe whose sender never stops sending: the lines
\* are whatever the environment types.
Unending == [finite |-> FALSE, lines |-> <<>>]

\* self._pipe_end.recv() with the EOFError handled as cmdloop() does: the next
\* line sent, or the end-of-input line once the closed pipe is empty.
pipe_recv(p) == IF p.lines = <<>> THEN EOF ELSE Head(p.lines)

\* The pipe once recv() has been called on it.
pipe_after_recv(p) == IF p.lines = <<>> THEN p ELSE [p EXCEPT !.lines = Tail(@)]

\* No prompt path is under test.
NoNames == [phase |-> "off", a |-> <<>>, b |-> <<>>, fa |-> <<>>, fb |-> <<>>]

\* batch_string() is not what feeds the pipe.
NoBatch == [phase |-> "off", todo |-> <<>>, cap |-> 0]

\* No completion has been requested.
NoDriver ==
    [phase |-> "off", owner |-> 0, line |-> <<>>, text |-> <<>>, state |-> 0,
     answer |-> [k |-> "None", v |-> <<>>, exc |-> "-"], out |-> <<>>, err |-> <<>>, got |-> <<>>]

NoExit == [completer |-> no_completer, delims |-> {}, history |-> <<>>, calls |-> <<>>]

\* Whether the class, or a base of it, overrides preloop() and postloop().
RECURSIVE OverridesHooks(_)
OverridesHooks(cls) ==
    IF cls \in {"_ShellBase", "object"} THEN FALSE
    ELSE cls = "HookShell" \/ OverridesHooks(ClassBase(cls))

\* How a call of self.preloop() or of self.postloop() can end. The hooks of
\* _ShellBase do nothing; those of a user shell print, as MyShell's do,
\* which raises when the standard output has been closed.
HookOutcomes(cls) == IF OverridesHooks(cls) THEN {"return", "raise"} ELSE {"return"}

\* What print() raises on a closed standard output.
hook_exc == Error("ValueError")

\* The calls cmdloop() makes inside its try statement before the first pass
\* of the loop.
try_calls == <<"preloop">>

\* finally_calls with the hook called after the facility is restored.
finally_calls_postloop_last(g, dir) ==
    IF ~dir THEN <<"set_completer", "write_history_file">>
    ELSE <<"set_completer", "write_history_file", "set_completer_delims", "postloop">>

\* The calls of the finally block of cmdloop(), in order, up to the one that
\* raises: postloop() ends as g says, write_history_file raises without the
\* folder.
finally_calls(g, dir) ==
    IF g = "raise" THEN <<"postloop">>
    ELSE IF ~dir THEN <<"postloop", "set_completer", "write_history_file">>
    ELSE <<"postloop", "set_completer", "write_history_file", "set_completer_delims">>

\* The observer's record of the facility as a cmdloop() finds it, and of the
\* hook and facility calls that cmdloop() has made around its loop.
Facility(env) ==
    [completer |-> env.rl.completer, delims |-> env.rl.delims, history |-> env.rl.history,
     calls |-> try_calls]

\* The position of a cmdloop() whose preloop() has ended as h says.
AfterPreloop(h) == IF h = "raise" THEN "raising" ELSE "reading"

SetEnv(env) ==
    /\ readline' = env.rl
    /\ fs' = env.fs

\* The editing facility and the folder of a program that has just created
\* its history folder.
Env0 ==
    Env([completer |-> no_completer, delims |-> default_delims, history |-> <<>>],
        [dir |-> TRUE, files |-> NoFiles])

\* print_debug(): the message goes to self.stderr when self.debug is set.
print_debug(self, msg) == IF self.debug THEN <<msg>> ELSE <<>>

Start(cls, root, h) ==
    /\ sessions = IF root.ok THEN <<root.shell>> ELSE <<>>
    /\ pc = IF root.ok THEN AfterPreloop(h) ELSE "aborted"
    /\ exc = IF root.ok /\ h = "raise" THEN hook_exc ELSE root.exc
    /\ last = [NoLine EXCEPT !.cls = cls]
    /\ loops = IF root.ok THEN <<loop_saved(Env0)>> ELSE <<>>
    /\ entered = IF root.ok THEN <<Facility(Env0)>> ELSE <<>>
    /\ readline = IF root.ok THEN cmdloop_enter(root.shell, Env0).rl ELSE Env0.rl
    /\ fs = Env0.fs
    /\ errs = IF root.ok THEN print_debug(root.shell, "Enter subshell") ELSE <<>>

\* The program constructs a root session of one of the types and calls its
\* cmdloop().
Boot(ttys, batch_modes, types, pipes) ==
    /\ tty \in ttys
    /\ batch_mode \in batch_modes
    /\ pipe \in pipes
    /\ driver = NoDriver
    /\ paths = NoNames
    /\ registry = NoRegistry
    /\ batch = NoBatch
    /\ \E cls \in types : \E h \in HookOutcomes(cls) :
           Start(cls, ShellInit(cls, FALSE, <<>>, s_root), h)
    /\ ret = PyNone
    /\ terminated = <<>>
    /\ lret = PyNone
    /\ called = FALSE
    /\ saved = <<>>
    /\ resumed = NoShell
    /\ guard = NoGuard
    /\ exited = NoExit

\* The program starts by constructing the root session and entering its
\* cmdloop(); a failing construction ends the program before any loop runs.
\* Lines arrive from a pipe, or from a standard input that is not a terminal.
Init == Boot({FALSE}, BOOLEAN, RootTypes, {Unending})

\* The same program reading a terminal through the editing facility.
InitHistory == Boot({TRUE}, {FALSE}, {"ProbeShell"}, {Unending})

\* The line cmdloop() hands to __exec_line__: input(prompt).strip(), or the
\* line received from the pipe as it is.
read_line(raw) == IF batch_mode THEN raw ELSE Strip(raw)

\* loop_try without the try/except.
loop_try_uncaught(out) == out

\* The try/except around __exec_line__ in cmdloop(): whatever is raised is
\* caught, the traceback is written to self.stderr and exit_directive keeps
\* the False it was given at the top of the pass.
loop_try(out) ==
    IF out.k = "raise"
    THEN Out("return", PyBool(FALSE), Append(out.err, "traceback"), out.called, "-", <<>>,
             out.exc)
    ELSE out

\* The rest of one pass of cmdloop()'s loop once __exec_line__ is over with
\* outcome out and the loop's tests have given d: an exception that was not
\* caught leaves cmdloop(); otherwise the loop breaks or goes on.
AfterDecision(out, d) ==
    /\ pc' = CASE d = "break" -> "returning" [] d = "raise" -> "raising" [] OTHER -> "reading"
    /\ ret' = IF d = "break" THEN out.v ELSE PyNone
    /\ exc' = IF out.k # "raise" /\ d = "raise" THEN Error("TypeError") ELSE out.exc

AfterLine(self, out) ==
    AfterDecision(out, IF out.k = "raise" THEN "raise" ELSE cmdloop_decide(self, out.v))

DispatchOut(self, line, r, body, out) ==
    /\ last' = Line(self, line, r, body.k, body.v)
    /\ called' = body.called
    /\ errs' = out.err
    /\ AfterLine(self, out)

DispatchBody(self, line, r, body) ==
    /\ body.k \in {"return", "raise"}
    /\ DispatchOut(self, line, r, body, loop_try(body))

DispatchResolved(self, line, r, env, oracle) ==
    /\ oracle \in OraclesResolved(self, r)
    /\ \E body \in {exec_from(self, r, oracle)} : DispatchBody(self, line, r, body)
    /\ sessions' = [sessions EXCEPT ![Len(sessions)] = self_after_resolved(self, r)]
    /\ SetEnv(env_after_resolved(self, r, env))

DispatchLine(self, line, env, oracle) ==
    \E r \in {resolution(self, line)} : DispatchResolved(self, line, r, env, oracle)

\* The top of a pass of cmdloop() in the deepest session: exit_directive is
\* False again and the session waits for a line. The observers start afresh.
Prompting ==
    /\ pc = "reading"
    /\ pc' = "input"
    /\ last' = NoLine
    /\ terminated' = <<>>
    /\ lret' = PyNone
    /\ errs' = <<>>
    /\ called' = FALSE
    /\ resumed' = NoShell
    /\ exited' = NoExit
    /\ ret' = PyNone
    /\ exc' = NoExc
    /\ UNCHANGED <<sessions, batch_mode, saved, guard, driver, pipe, readline, fs, tty, loops, entered, paths, batch, registry>>

\* The rest of the pass for a line whose handler returns or raises without
\* launching a subshell.
Dispatch(raw, oracle) ==
    /\ pc = "input"
    /\ DispatchLine(Top, read_line(raw), input_env(raw), oracle)
    /\ terminated' = <<>>
    /\ lret' = PyNone
    /\ resumed' = NoShell
    /\ exited' = NoExit
    /\ pipe' = pipe_after_recv(pipe)
    /\ UNCHANGED <<batch_mode, saved, guard, driver, tty, loops, entered, paths, batch, registry>>

\* The mode frame launch_subshell() makes for the resolved command r.
ChildMode(self, r, out) == Mode(Depth(self), r.cmd, r.args, out.prompt, <<>>)

ChildBuilt(self, out, mode) ==
    [mode |-> mode,
     built |-> ShellInit(out.sub, self.debug, child_mode_stack(self, mode), self.root_prompt)]

\* The child launch_subshell() constructs for a line whose @subshell handler
\* returned a prompt.
Child(self, r, out) == ChildBuilt(self, out, ChildMode(self, r, out))

\* The child's cmdloop() is called with the facility as launch_subshell()
\* left it after saving the parent's history.
EnterChild(child, env) ==
    /\ loops' = Append(loops, loop_saved(env))
    /\ entered' = Append(entered, Facility(env))
    /\ SetEnv(cmdloop_enter(child, env))
    /\ \E h \in HookOutcomes(child.cls) :
           /\ pc' = AfterPreloop(h)
           /\ exc' = IF h = "raise" THEN hook_exc ELSE NoExc

LaunchChild(self, line, r, body, env, child) ==
    /\ env.fs.dir
    /\ child.built.ok
    /\ sessions' = Append([sessions EXCEPT ![Len(sessions)] =
                              parent_after_launch(self, child.mode)],
                          child.built.shell)
    /\ saved' = Append(saved, self)
    /\ last' = Line(self, line, r, "launch", PyNone)
    /\ errs' = body.err \o print_debug(self, "Leave parent shell")
                         \o print_debug(child.built.shell, "Enter subshell")
    /\ called' = body.called
    /\ EnterChild(child.built.shell, write_history_file(self, env))

LaunchBody(self, line, r, env, body) ==
    /\ body.k = "launch"
    /\ \E child \in {Child(self, r, body)} : LaunchChild(self, line, r, body, env, child)

LaunchLine(self, line, r, env, oracle) ==
    \E body \in {exec_from(self, r, oracle)} : LaunchBody(self, line, r, env, body)

\* A line whose @subshell handler returns a prompt: launch_subshell() saves
\* the history, builds the child session, and the child enters its cmdloop().
Launch(raw, oracle) ==
    /\ pc = "input"
    /\ Len(sessions) <= MaxDepth
    /\ \E r \in {resolution(Top, read_line(raw))} :
           LaunchLine(Top, read_line(raw), r, input_env(raw), oracle)
    /\ ret' = PyNone
    /\ terminated' = <<>>
    /\ lret' = PyNone
    /\ resumed' = NoShell
    /\ exited' = NoExit
    /\ pipe' = pipe_after_recv(pipe)
    /\ UNCHANGED <<batch_mode, guard, driver, tty, paths, batch, registry>>

FailedOut(self, out) ==
    /\ errs' = out.err
    /\ AfterLine(self, out)

\* What launch_subshell() raises: the failure of write_history_file without
\* the folder, else the failure of the child's construction.
launch_exc(env, child) == IF ~env.fs.dir THEN Error("OSError") ELSE child.built.exc

FailedChild(self, line, r, body, env, child) ==
    /\ ~env.fs.dir \/ ~child.built.ok
    /\ sessions' = [sessions EXCEPT ![Len(sessions)] = parent_after_launch(self, child.mode)]
    /\ FailedOut(self, loop_try(Raise(launch_exc(env, child), body.err, body.called)))
    /\ last' = Line(self, line, r, "launch_failed", PyNone)
    /\ called' = body.called
    /\ SetEnv(IF env.fs.dir THEN write_history_file(self, env) ELSE env)

FailedBody(self, line, r, env, body) ==
    /\ body.k = "launch"
    /\ \E child \in {Child(self, r, body)} : FailedChild(self, line, r, body, env, child)

FailedLine(self, line, r, env, oracle) ==
    \E body \in {exec_from(self, r, oracle)} : FailedBody(self, line, r, env, body)

\* A line whose @subshell handler returns a prompt when launch_subshell()
\* raises, the history folder being gone or the construction of the child
\* raising: the exception leaves launch_subshell() and the handler inside the
\* launching session's try/except around __exec_line__.
LaunchFails(raw, oracle) ==
    /\ pc = "input"
    /\ Len(sessions) <= MaxDepth
    /\ \E r \in {resolution(Top, read_line(raw))} :
           FailedLine(Top, read_line(raw), r, input_env(raw), oracle)
    /\ terminated' = <<>>
    /\ lret' = PyNone
    /\ resumed' = NoShell
    /\ exited' = NoExit
    /\ pipe' = pipe_after_recv(pipe)
    /\ UNCHANGED <<batch_mode, saved, guard, driver, tty, loops, entered, paths, batch, registry>>

\* The deepest session's cmdloop() ends: its finally block has run, its
\* locals are gone.
\* postloop() ends as g says.
LeaveLoop(g) ==
    /\ loops' = SubSeq(loops, 1, Len(loops) - 1)
    /\ entered' = SubSeq(entered, 1, Len(entered) - 1)
    /\ exited' = [entered[Len(entered)] EXCEPT !.calls = @ \o finally_calls(g, fs.dir)]

\* The facility and the folder after the finally block of the deepest
\* session: a postloop() that raises leaves the block before anything is
\* restored or written.
Finally(g) ==
    IF g = "raise" THEN Env(readline, fs)
    ELSE cmdloop_finally(Top, loops[Len(loops)], Env(readline, fs))

\* Whether control leaves the deepest session's cmdloop() by an exception:
\* one in flight, or the failure of postloop() or of the history write in
\* the finally block.
Raising(g) == pc = "raising" \/ (pc = "returning" /\ (g = "raise" \/ ~fs.dir))

\* The exception that leaves the deepest session's cmdloop().
Raised(g) == IF g = "raise" THEN hook_exc ELSE IF ~fs.dir THEN Error("OSError") ELSE exc

\* A child's cmdloop() returns: launch_subshell() resumes in the parent and
\* returns value, the launching handler returns that value, and the parent's
\* loop applies its tests to it.
Resume(parent, value) ==
    /\ lret' = value
    /\ AfterLine(parent, Return(value, <<>>, TRUE))

ReturnToParent ==
    /\ pc = "returning"
    /\ fs.dir
    /\ Len(sessions) > 1
    /\ Resume(sessions[Len(sessions) - 1], launch_return(ret))
    /\ SetEnv(load_history(sessions[Len(sessions) - 1], Finally("return")))
    /\ LeaveLoop("return")
    /\ terminated' = Append(terminated, Len(sessions) - 1)
    /\ sessions' = SubSeq(sessions, 1, Len(sessions) - 1)
    /\ resumed' = saved[Len(saved)]
    /\ saved' = SubSeq(saved, 1, Len(saved) - 1)
    /\ errs' = errs \o print_debug(Top, "Leave subshell")
                    \o print_debug(sessions[Len(sessions) - 1], "Enter parent shell")
    /\ UNCHANGED <<batch_mode, last, called, guard, driver, pipe, tty, paths, batch, registry>>

\* The root's cmdloop() returns to the program that started it.
RootReturn ==
    /\ pc = "returning"
    /\ fs.dir
    /\ Len(sessions) = 1
    /\ pc' = "done"
    /\ SetEnv(Finally("return"))
    /\ LeaveLoop("return")
    /\ terminated' = Append(terminated, 0)
    /\ sessions' = <<>>
    /\ errs' = errs \o print_debug(Top, "Leave subshell")
    /\ UNCHANGED <<ret, exc, batch_mode, last, lret, called, saved, resumed, guard, driver, pipe, tty, paths, batch, registry>>

Caught(parent, out) ==
    /\ errs' = errs \o out.err
    /\ AfterLine(parent, out)

\* An exception leaves a child's cmdloop(): it passes through launch_subshell()
\* and the launching handler into the parent's try/except around __exec_line__.
RaiseToParent ==
    /\ Len(sessions) > 1
    /\ \E g \in HookOutcomes(Top.cls) :
           /\ Raising(g)
           /\ Caught(sessions[Len(sessions) - 1], loop_try(Raise(Raised(g), <<>>, TRUE)))
           /\ SetEnv(Finally(g))
           /\ LeaveLoop(g)
    /\ terminated' = Append(terminated, Len(sessions) - 1)
    /\ sessions' = SubSeq(sessions, 1, Len(sessions) - 1)
    /\ resumed' = saved[Len(saved)]
    /\ saved' = SubSeq(saved, 1, Len(saved) - 1)
    /\ UNCHANGED <<batch_mode, last, lret, called, guard, driver, pipe, tty, paths, batch, registry>>

\* An exception leaves the root's cmdloop(): the program ends with it.
RootRaise ==
    /\ Len(sessions) = 1
    /\ pc' = "crashed"
    /\ \E g \in HookOutcomes(Top.cls) :
           /\ Raising(g)
           /\ exc' = Raised(g)
           /\ SetEnv(Finally(g))
           /\ LeaveLoop(g)
    /\ terminated' = Append(terminated, 0)
    /\ sessions' = <<>>
    /\ UNCHANGED <<ret, batch_mode, last, lret, errs, called, saved, resumed, guard, driver, pipe, tty, paths, batch, registry>>

\* The handler results to try for a line read in the current state.
DispatchOracles(raw) == IF pc = "input" THEN Oracles(Top, read_line(raw)) ELSE {}

\* The lines the user of the running program may type.
Keyboard ==
    IF pc # "input" THEN {}
    ELSE IF pipe.finite THEN {pipe_recv(pipe)}
    ELSE IF tty THEN {raw \in HistoryLines :
                         Len(input_history(readline.history, raw)) <= MaxHistory}
    ELSE IF sessions[1].cls = "FooShell" THEN FooLines
    ELSE IF sessions[1].cls \in {"HookShell", "LegacyShell"} THEN HookLines
    ELSE Lines

Next ==
    \/ Prompting
    \/ \E raw \in Keyboard : \E oracle \in DispatchOracles(raw) : Dispatch(raw, oracle)
    \/ \E raw \in Keyboard : \E oracle \in DispatchOracles(raw) : Launch(raw, oracle)
    \/ \E raw \in Keyboard : \E oracle \in DispatchOracles(raw) : LaunchFails(raw, oracle)
    \/ ReturnToParent
    \/ RootReturn
    \/ RaiseToParent
    \/ RootRaise

Spec == Init /\ [][Next]_vars

\* The steps of a program whose user types HistoryLines at a terminal: no
\* line of these fails to launch or lets an exception leave a loop.
NextHistory ==
    \/ Prompting
    \/ \E raw \in Keyboard : \E oracle \in DispatchOracles(raw) : Dispatch(raw, oracle)
    \/ \E raw \in Keyboard : \E oracle \in DispatchOracles(raw) : Launch(raw, oracle)
    \/ ReturnToParent
    \/ RootReturn

SpecHistory == InitHistory /\ [][NextHistory]_vars

\* A program that runs HookShell, or the shell derived from it,
\* on a standard input that is not a terminal.
InitHooks == Boot({FALSE}, {FALSE}, {"HookShell", "LegacyShell"}, {Unending})

\* Every shell type reachable from HookShell can be constructed, so no launch fails.
NextHooks ==
    \/ Prompting
    \/ \E raw \in Keyboard : \E oracle \in DispatchOracles(raw) : Dispatch(raw, oracle)
    \/ \E raw \in Keyboard : \E oracle \in DispatchOracles(raw) : Launch(raw, oracle)
    \/ ReturnToParent
    \/ RootReturn
    \/ RaiseToParent
    \/ RootRaise

SpecHooks == InitHooks /\ [][NextHooks]_vars

----------------------------------------------------------------------------
(* Batch mode: the lines batch_string() sends through a pipe it then closes *)

\* The lines a batch may hold.
BatchLines ==
    {s_sub, s_exit, s_ret, s_dupc, s_nope, Join(<<" ">>, <<s_exit, s_all>>)}

\* The receiving end after batch_string() has sent the lines of the content
\* and closed the sending end.
BatchPipes ==
    {[finite |-> TRUE, lines |-> q] : q \in UNION {[1..n -> BatchLines] : n \in 0..MaxQueue}}

InitBatch == Boot({FALSE}, {TRUE}, {"ProbeShell"}, BatchPipes)

\* The process batch_string() starts runs cmdloop() to its end: each step of
\* the loop that can be taken is taken.
SpecBatch == InitBatch /\ [][Next]_vars /\ WF_vars(Next)

----------------------------------------------------------------------------
(* batch_string() itself: the sender, the pipe and the process it starts *)

\* The number of lines the pipe takes before send() blocks.
Capacities == {MaxCapacity}

\* A content of n lines `nope`.
Repeated(n) == [i \in 1..n |-> s_nope]

\* content.split('\n'): at least one line, the empty one for an empty content.
\* Short contents of every make, a long one that fills the pipe and one of
\* one more line than the pipe takes.
BatchContents ==
    UNION {[1..n -> BatchLines \cup {<<>>}] : n \in 1..MaxQueue}
        \cup {Repeated(n) : n \in {MaxCapacity, MaxCapacity + 1}}

\* batch_string() has been called on a root session constructed for batch
\* mode: the pipe is made and empty, the process is not started, and the lines
\* of the content are about to be sent. The pipe holds cap lines.
InitPipe ==
    /\ \E content \in BatchContents, cap \in Capacities :
           batch = [phase |-> "sending", todo |-> content, cap |-> cap]
    /\ pipe = [finite |-> TRUE, lines |-> <<>>]
    /\ batch_mode = TRUE
    /\ sessions = <<ShellInit("ProbeShell", FALSE, <<>>, s_root).shell>>
    /\ pc = "batch_string"
    /\ exc = NoExc
    /\ last = [NoLine EXCEPT !.cls = "ProbeShell"]
    /\ ret = PyNone
    /\ terminated = <<>>
    /\ lret = PyNone
    /\ errs = <<>>
    /\ called = FALSE
    /\ saved = <<>>
    /\ resumed = NoShell
    /\ guard = NoGuard
    /\ readline = Env0.rl
    /\ fs = Env0.fs
    /\ tty = FALSE
    /\ loops = <<>>
    /\ entered = <<>>
    /\ exited = NoExit
    /\ driver = NoDriver
    /\ paths = NoNames
    /\ registry = NoRegistry

\* pipe_send.send(line) in the for loop of batch_string(): the call returns
\* once the pipe has taken the line and blocks while the pipe is full. Nothing
\* receives yet, the process that will is started after the loop.
Send ==
    /\ batch.phase = "sending"
    /\ batch.todo # <<>>
    /\ Len(pipe.lines) < batch.cap
    /\ pipe' = [pipe EXCEPT !.lines = Append(@, Head(batch.todo))]
    /\ batch' = [batch EXCEPT !.todo = Tail(@)]
    /\ UNCHANGED <<sessions, pc, ret, exc, batch_mode, last, terminated, lret, errs, called,
                   saved, resumed, guard, readline, fs, tty, loops, entered, exited, driver,
                   paths, registry>>

\* pipe_send.close(); proc.start(): every line is in the pipe, and the
\* process calls self.cmdloop().
StartProcess ==
    /\ batch.phase = "sending"
    /\ batch.todo = <<>>
    /\ batch' = [batch EXCEPT !.phase = "started"]
    /\ EnterChild(Top, Env(readline, fs))
    /\ errs' = errs \o print_debug(Top, "Enter subshell")
    /\ UNCHANGED <<sessions, ret, batch_mode, last, terminated, lret, called, saved,
                   resumed, guard, tty, exited, pipe, driver, paths, registry>>

\* proc.join() returns when cmdloop() has ended in the process.
JoinProcess ==
    /\ batch.phase = "started"
    /\ pc \in {"done", "crashed"}
    /\ batch' = [batch EXCEPT !.phase = "joined"]
    /\ UNCHANGED <<sessions, pc, ret, exc, batch_mode, last, terminated, lret, errs, called,
                   saved, resumed, guard, readline, fs, tty, loops, entered, exited, pipe,
                   driver, paths, registry>>

NextPipe ==
    \/ Send
    \/ StartProcess
    \/ JoinProcess
    \/ Next

\* batch_string() and the process it starts go on whenever they can.
SpecPipe == InitPipe /\ [][NextPipe]_vars /\ WF_vars(NextPipe)

----------------------------------------------------------------------------
(* The completion and help driver: the callback readline invokes in input() *)

\* A line of a text: n leading spaces, then s. A text is the sequence of
\* lines str.split('\n') gives, so a text ending in '\n' ends with an empty line.
TextLine(n, s) == [n |-> n, s |-> s]

\* '\n'
Newline == <<TextLine(0, <<>>), TextLine(0, <<>>)>>

\* A one-line text without a newline: a prompt, an input line.
Plain(s) == <<TextLine(0, s)>>

\* The margin textwrap.dedent removes: the least indentation of the lines
\* that are not blank.
Margin(text) ==
    LET ns == {text[i].n : i \in {j \in DOMAIN text : text[j].s # <<>>}}
    IN  IF ns = {} THEN 0 ELSE CHOOSE m \in ns : \A k \in ns : m <= k

\* textwrap.dedent(text): blank lines lose their spaces, the others the margin.
dedent(text) ==
    [i \in DOMAIN text |->
        IF text[i].s = <<>> THEN TextLine(0, <<>>)
        ELSE TextLine(text[i].n - Margin(text), text[i].s)]

\* subprocess.list2cmdline(toks): the tokens joined by spaces, a token that is
\* empty or holds a space inside double quotes.
list2cmdline(toks) ==
    Join(<<" ">>, [i \in DOMAIN toks |->
                     IF toks[i] = <<>> \/ \E j \in DOMAIN toks[i] : toks[i][j] = " "
                     THEN <<"\"">> \o toks[i] \o <<"\"">> ELSE toks[i]])

\* method.__doc__ of the decorated methods: the decorators copy the doc string
\* of the function they wrap. <<>> stands for no doc string.
MethodDoc(name) ==
    CASE name = "_do_exec" ->
           <<TextLine(0, <<"Execute a command using subprocess.Popen().">>), TextLine(8, <<>>)>>
      [] name = "_do_exit" ->
           <<TextLine(8, <<"Exit shell.">>),
             TextLine(12, <<"exit | C-D          Exit to the parent shell.">>),
             TextLine(12, <<"exit root | end     Exit to the root shell.">>),
             TextLine(12, <<"exit all            Exit to the command line.">>),
             TextLine(8, <<>>)>>
      [] name = "_do_history" ->
           <<TextLine(8, <<"Display history.">>),
             TextLine(12, <<"history             Display history.">>),
             TextLine(12, <<"history clear       Clear history.">>),
             TextLine(12, <<"history clearall    Clear history for all shells.">>),
             TextLine(8, <<>>)>>
      [] name = "_do_stack" ->
           <<TextLine(8, <<"Manage the shell stack.">>),
             TextLine(12, <<"stack               Display the stack.">>),
             TextLine(12, <<"stack <depth>       Exit to the stack by its depth.">>),
             TextLine(8, <<>>)>>
      [] name = "_do_help" ->
           <<TextLine(0, <<"Display doc strings of the shell and its commands.">>),
             TextLine(8, <<>>)>>
      [] name = "_do_debug" ->
           <<TextLine(8, <<"Enter the debugging shell.">>),
             TextLine(12, <<"debug               Show current debugging status, i.e, on/off.">>),
             TextLine(12, <<"debug {on,off}      Turn on/off debugging info.">>),
             TextLine(12, <<"debug shell         Enter debugging shell.">>),
             TextLine(12, <<"debug toggle        Toggle current debugging status.">>),
             TextLine(8, <<>>)>>
      [] name = "_do_print" ->
           <<TextLine(8, <<"Display symbols.">>),
             TextLine(12, <<"p               Display names of inspectable objects.">>),
             TextLine(12, <<"p <id>          Display the content of an object.">>),
             TextLine(8, <<>>)>>
      [] name = "_do_eval" ->
           <<TextLine(8, <<"Evaluate python code.">>),
             TextLine(12, <<"e <expr>        Evaluate <expr>.">>),
             TextLine(8, <<>>)>>
      [] name = "do_p" ->
           <<TextLine(8, <<"Please try:">>), TextLine(12, <<"panything">>), TextLine(8, <<>>)>>
      [] name = "do_deprecated" ->
           <<TextLine(0, <<"Demo deprecated command.">>), TextLine(8, <<>>)>>
      [] name = "do_doc" ->
           <<TextLine(8, <<"Documented.">>), TextLine(12, <<"doc     More.">>), TextLine(8, <<>>)>>
      [] name = "do_plain" -> Plain(<<"Plain doc.">>)
      [] name = "do_dark" -> Plain(<<"Dark doc.">>)
      [] name = "do_bad" -> Plain(<<"Bad doc.">>)
      [] name = "do_child" -> Plain(<<"Sub doc.">>)
      [] OTHER -> <<>>

\* cls.__doc__: a class that declares no doc string has None, never its
\* base's. <<>> stands for None. The long doc strings of object, _ShellBase
\* and DebuggingShell are given by their first line.
ClassDoc(cls) ==
    CASE cls = "object" -> Plain(<<"The base class of the class hierarchy.">>)
      [] cls = "_ShellBase" -> Plain(<<"Base shell class.">>)
      [] cls = "BasicShell" -> Plain(<<"Shell with a few built-in commands.">>)
      [] cls = "Shell" ->
           <<TextLine(0, <<"Interactive shell.">>),
             TextLine(0, <<>>),
             TextLine(4, <<"Get help:">>),
             TextLine(12, <<"help                Display information about this shell and its">>),
             TextLine(32, <<"commands.">>),
             TextLine(12, <<"<TAB>               Display commands.">>),
             TextLine(12, <<"?<TAB>              Display this message.">>),
             TextLine(12, <<"<command>?<TAB>     Display help message for <command>.">>),
             TextLine(0, <<>>),
             TextLine(4, <<"Execute a real shell command.">>),
             TextLine(12, <<"! <command>         Execute <command> using subprocess.Popen().">>),
             TextLine(4, <<>>)>>
      [] cls = "KarShell" ->
           <<TextLine(0, <<"The KarShell.">>),
             TextLine(0, <<>>),
             TextLine(4, <<"This message shows up when you type 'help'">>),
             TextLine(4, <<>>)>>
      [] cls = "DebuggingShell" -> Plain(<<"Debugging shell.">>)
      [] cls = "HelpShell" -> Plain(<<"Help fixture.">>)
      [] OTHER -> <<>>

\* doc_string with the walk going on past a class that has a doc string.
RECURSIVE doc_string_of_root(_)
doc_string_of_root(cls) ==
    IF cls = "object" THEN ClassDoc(cls) ELSE doc_string_of_root(ClassBase(cls))

\* _ShellBase.doc_string: the doc string of the class, or of the nearest class
\* along __bases__[0] that has one.
RECURSIVE doc_string(_)
doc_string(cls) ==
    IF ClassDoc(cls) # <<>> THEN ClassDoc(cls) ELSE doc_string(ClassBase(cls))

\* name.startswith(text)
StartsWith(name, text) == Len(text) <= Len(name) /\ SubSeq(name, 1, Len(text)) = text

\* The orders in which iterating a set literal can yield its elements.
SetOrders(S) == {f \in [1..Cardinality(S) -> S] : \A i, j \in DOMAIN f : f[i] = f[j] => i = j}

\* The set literal a completer filters.
CompleterWords(name) ==
    CASE name = "_complete_exit" -> {s_root, s_all}
      [] name = "_complete_history" -> {s_clear, s_clearall}
      [] name = "_complete_debug" -> {s_on, s_off, s_shell, s_toggle}
      [] OTHER -> {}

\* What a call of a completer gives: a list, None, or an exception.
Completed(k, v, e) == [k |-> k, v |-> v, exc |-> e]

\* getattr(self, completer_name)(cmd, args, text). args is None or a list;
\* order is the order in which the completer's set literal is iterated.
completer_method(self, name, cmd, args, text, order) ==
    CASE name \in {"_complete_exit", "_complete_history"} ->
           IF args.t = "list" /\ args.l # <<>> THEN Completed("return", NoneList, NoExc)
           ELSE Completed("return", PyListOf(SelectSeq(order, LAMBDA x : StartsWith(x, text))), NoExc)
      [] name = "_complete_debug" ->
           IF args.t = "list" /\ args.l # <<>> THEN Completed("return", PyListOf(<<>>), NoExc)
           ELSE Completed("return", PyListOf(SelectSeq(order, LAMBDA x : StartsWith(x, text))), NoExc)
      [] name = "_complete_stack" ->
           IF args.t = "list" /\ args.l # <<>> THEN Completed("return", NoneList, NoExc)
           ELSE Completed("return", PyListOf([i \in 1..(Depth(self) + 1) |-> IntStr(i - 1)]), NoExc)
      [] name = "complete_doc" ->
           Completed("return", PyListOf(SelectSeq(<<s_one, s_two>>, LAMBDA x : StartsWith(x, text))), NoExc)
      [] name = "complete_bad" -> Completed("raise", NoneList, Error("RuntimeError"))
      [] OTHER -> Completed("return", NoneList, NoExc)

\* getattr(self, helper_name)(cmd, args): the text a helper returns, or the
\* exception it raises.
helper_method(self, name, cmd, args) ==
    CASE name = "help_doc" -> Completed("return", Plain(Join(<<" ">>, <<cmd>> \o args)), NoExc)
      [] name = "help_bad" -> Completed("raise", <<>>, Error("RuntimeError"))
      [] OTHER -> Completed("return", <<>>, NoExc)

\* list(self._cmd_map_visible.keys()): a dict keeps the order in which
\* __build_cmd_maps inserted the names.
cmd_map_visible_keys(self) ==
    LET pairs == PairsFrom(self.cls, "command", Dir(self.cls), <<>>)
    IN  SelectSeq([i \in DOMAIN pairs |-> pairs[i].cmd],
                  LAMBDA c : c \in DOMAIN self.cmd_map_visible)

\* __complete_cmds over every command, hidden ones included.
complete_cmds_all(self, text) ==
    LET pairs == PairsFrom(self.cls, "command", Dir(self.cls), <<>>)
    IN  SelectSeq([i \in DOMAIN pairs |-> pairs[i].cmd], LAMBDA name : StartsWith(name, text))

\* _ShellBase.__complete_cmds
complete_cmds(self, text) ==
    SelectSeq(cmd_map_visible_keys(self), LAMBDA name : StartsWith(name, text))

\* What a call of the driver gives readline: a string or None returned, or
\* an exception that leaves the driver.
Answer(k, v, e) == [k |-> k, v |-> v, exc |-> e]

\* traceback.format_exc() for the exception e.
format_exc(e) == Plain(<<"Traceback", e.type>>)

\* A call of the driver: the answer, the candidate cache after it and what it
\* wrote to self.stdout and self.stderr.
Driven(answer, candidates, out, err) ==
    [answer |-> answer, candidates |-> candidates, out |-> out, err |-> err]

\* self.__completion_candidates[state], the last statement of every path of
\* __driver_completer. state is never negative.
candidate_at(cache, state, err) ==
    IF cache.t = "None" THEN Driven(Answer("raise", <<>>, "TypeError"), cache, <<>>, err)
    ELSE IF state >= Len(cache.l) THEN Driven(Answer("raise", <<>>, "IndexError"), cache, <<>>, err)
    ELSE Driven(Answer("str", cache.l[state + 1], "-"), cache, <<>>, err)

\* The args a completer receives: None for a lone command, else the tokens
\* after it without the word being completed.
completer_args(toks, text) ==
    IF Len(toks) <= 1 THEN NoneList
    ELSE IF text # <<>> THEN PyListOf(SubSeq(toks, 2, Len(toks) - 1))
    ELSE PyListOf(Tail(toks))

\* The try/except around the completer in __driver_completer.
completer_try(done) ==
    IF done.k = "raise"
    THEN [candidates |-> PyListOf(<<>>), err |-> <<Newline, format_exc(done.exc)>>]
    ELSE [candidates |-> done.v, err |-> <<>>]

\* _ShellBase.__driver_completer
driver_completer(self, toks, text, state, order) ==
    IF state # 0 THEN candidate_at(self.completion_candidates, state, <<>>)
    ELSE IF toks = <<>> \/ (Len(toks) = 1 /\ text = toks[1])
    THEN candidate_at(PyListOf(complete_cmds(self, text)), state, <<>>)
    ELSE IF toks[1] \in DOMAIN self.completer_map
    THEN LET tried == completer_try(completer_method(self, self.completer_map[toks[1]], toks[1],
                                                     completer_args(toks, text), text, order))
         IN  candidate_at(tried.candidates, state, tried.err)
    ELSE candidate_at(PyListOf(<<>>), state, <<>>)

\* The default help message of __get_help_message.
no_help_message(toks) ==
    dedent(<<TextLine(23, <<"No help message is found for:">>),
             TextLine(23 + 4, list2cmdline(toks)),
             TextLine(23, <<>>)>>)

\* __get_help_message asking the doc string before the helper.
get_help_message_doc_first(self, toks) ==
    IF toks[1] \in DOMAIN self.cmd_map_all /\ MethodDoc(self.cmd_map_all[toks[1]]) # <<>>
    THEN Completed("return", dedent(MethodDoc(self.cmd_map_all[toks[1]])), NoExc)
    ELSE IF toks[1] \in DOMAIN self.helper_map
    THEN helper_method(self, self.helper_map[toks[1]], toks[1], Tail(toks))
    ELSE Completed("return", no_help_message(toks), NoExc)

\* _ShellBase.__get_help_message: the helper registered for the command, else
\* the doc string of the command's method, else the default message.
get_help_message(self, toks) ==
    IF toks[1] \in DOMAIN self.helper_map
    THEN helper_method(self, self.helper_map[toks[1]], toks[1], Tail(toks))
    ELSE IF toks[1] \in DOMAIN self.cmd_map_all /\ MethodDoc(self.cmd_map_all[toks[1]]) # <<>>
    THEN Completed("return", dedent(MethodDoc(self.cmd_map_all[toks[1]])), NoExc)
    ELSE Completed("return", no_help_message(toks), NoExc)

\* The end of __driver_helper: the prompt and the input line are written again.
redisplay(self, line) == <<Newline, Plain(Prompt(self)), Plain(line)>>

\* __driver_helper from the resolved message on. After a helper's exception
\* the local msg was never bound: writing it raises UnboundLocalError.
helped(self, line, msg) ==
    IF msg.k = "raise"
    THEN Driven(Answer("raise", <<>>, "UnboundLocalError"), self.completion_candidates,
                <<Newline>>, <<Newline, format_exc(msg.exc)>>)
    ELSE Driven(Answer("None", <<>>, "-"), self.completion_candidates,
                <<Newline, msg.v>> \o redisplay(self, line), <<>>)

\* _ShellBase.__driver_helper
driver_helper(self, line) ==
    IF Strip(line) = <<"?">>
    THEN Driven(Answer("None", <<>>, "-"), self.completion_candidates,
                <<Newline, doc_string(self.cls)>> \o redisplay(self, line), <<>>)
    ELSE helped(self, line, get_help_message(self, shlex_split(SubSeq(line, 1, Len(line) - 1))))

\* _ShellBase.__driver_stub from the stripped line buffer on.
driver_stub_line(self, line, text, state, order) ==
    IF line # <<>> /\ line[Len(line)] = "?" THEN driver_helper(self, line)
    ELSE driver_completer(self, shlex_split(line), text, state, order)

\* _ShellBase.__driver_stub: readline.get_line_buffer() is origline.
driver_stub(self, origline, text, state, order) ==
    driver_stub_line(self, LStrip(origline), text, state, order)

\* The completion scope readline hands to the completer: the end of the line
\* buffer after its last delimiter character.
completion_scope(origline, delims) ==
    LET at == {i \in DOMAIN origline : origline[i] \in delims}
    IN  IF at = {} THEN origline
        ELSE SubSeq(origline, (CHOOSE i \in at : \A j \in at : j <= i) + 1, Len(origline))

\* The line buffers at which the user presses the completion key.
DriverLines ==
    { <<>>, <<"d">>, s_e, <<"z">>, <<"e", "x">>, <<" ", "s">>,
      s_doc \o <<" ">>, s_doc \o <<" ", "o">>, s_bad \o <<" ">>, s_plain \o <<" ">>,
      s_stack \o <<" ">>, s_stack \o <<" ", "1", " ">>, s_exit \o <<" ">>, s_exit \o <<" ", "r">>,
      s_history \o <<" ", "c">>,
      <<"?">>, <<" ", "?">>, s_doc \o <<"?">>, s_doc \o <<" ", "x", "?">>, s_plain \o <<"?">>,
      s_bare \o <<"?">>, s_bare \o <<" ", "x", "?">>, s_dark \o <<"?">>, s_bad \o <<"?">>,
      s_nope \o <<"?">>, s_exit \o <<"?">>, s_help \o <<"?">>, s_bang \o <<"?">> }

\* The orders in which the completer serving the line can iterate its set literal.
CompleterOrders(self, toks) ==
    IF toks # <<>> /\ toks[1] \in DOMAIN self.completer_map
    THEN SetOrders(CompleterWords(self.completer_map[toks[1]]))
    ELSE {<<>>}

\* The record of a driver call: the session that served it, readline's
\* arguments, the answer, the writes, and the candidates handed out so far in
\* the cycle.
Called(owner, origline, text, state, r, got) ==
    [phase |-> "called", owner |-> owner, line |-> origline, text |-> text, state |-> state,
     answer |-> r.answer, out |-> r.out, err |-> r.err,
     got |-> IF r.answer.k = "str" THEN Append(got, r.answer.v) ELSE got]

Drive(origline, text, state, got, r) ==
    /\ sessions' = [sessions EXCEPT ![Len(sessions)].completion_candidates = r.candidates]
    /\ driver' = Called(Len(sessions), origline, text, state, r, got)
    /\ UNCHANGED <<pc, ret, exc, batch_mode, last, terminated, lret, errs, called, saved,
                   resumed, tty, readline, fs, loops, guard, entered, exited, pipe, paths, batch, registry>>

\* The user presses the completion key in input(): readline starts a cycle by
\* calling the session's __driver_stub with state 0.
Tab(origline, order) ==
    /\ pc = "input"
    /\ tty
    /\ \E text \in {completion_scope(origline, readline.delims)} :
       \E r \in {driver_stub(Top, origline, text, 0, order)} :
           Drive(origline, text, 0, <<>>, r)

\* readline goes on with the next state for as long as the driver returns a
\* string; None or an exception ends the cycle.
TabAgain ==
    /\ pc = "input"
    /\ driver.phase = "called"
    /\ driver.owner = Len(sessions)
    /\ driver.answer.k = "str"
    /\ \E r \in {driver_stub(Top, driver.line, driver.text, driver.state + 1, <<>>)} :
           Drive(driver.line, driver.text, driver.state + 1, driver.got, r)

\* A program whose user, at a terminal, asks for completions and help, and
\* enters a subshell with `sub`.
InitDriver == Boot({TRUE}, {FALSE}, {"HelpShell", "QuietShell", "BasicShell", "FooShell"}, {Unending})

NextDriver ==
    \/ Prompting
    \/ \E oracle \in DispatchOracles(s_sub) : Launch(s_sub, oracle)
    \/ \E origline \in DriverLines :
         \E order \in CompleterOrders(Top, shlex_split(LStrip(origline))) : Tab(origline, order)
    \/ TabAgain

SpecDriver == InitDriver /\ [][NextDriver]_vars

----------------------------------------------------------------------------
(* The arity guard on its own: every rule against every argument count *)

\* A BasicShell session for the guarded handler to be called on.
GuardShell == ShellInit("BasicShell", FALSE, <<>>, s_root).shell

GuardOracles == {PyNone, PyBool(TRUE), PyStr(s_root), PyInt(0)}

InitGuard ==
    /\ \E nargs \in ArityRules, n \in 0..(MaxN + 1), oracle \in GuardOracles :
        guard = [NoGuard EXCEPT !.phase = "call", !.nargs = nargs, !.n = n, !.oracle = oracle]
    /\ batch_mode = FALSE
    /\ sessions = <<GuardShell>>
    /\ pc = "guard"
    /\ exc = NoExc
    /\ last = NoLine
    /\ ret = PyNone
    /\ terminated = <<>>
    /\ lret = PyNone
    /\ errs = <<>>
    /\ called = FALSE
    /\ saved = <<>>
    /\ resumed = NoShell
    /\ readline = Env0.rl
    /\ fs = Env0.fs
    /\ tty = FALSE
    /\ loops = <<>>
    /\ entered = <<>>
    /\ exited = NoExit
    /\ pipe = Unending
    /\ driver = NoDriver
    /\ paths = NoNames
    /\ registry = NoRegistry
    /\ batch = NoBatch

GuardResult(out) ==
    guard' = [guard EXCEPT !.phase = "done", !.result = out.v, !.errs = out.err,
                           !.called = out.called]

\* A command declared with nargs = guard.nargs is called with guard.n arguments.
GuardCall ==
    /\ guard.phase = "call"
    /\ GuardResult(inner_func(Top, Command("do_probe", <<s_one>>, TRUE, FALSE, guard.nargs,
                                           "returns"),
                              s_one, [i \in 1..guard.n |-> s_x], guard.oracle))
    /\ UNCHANGED <<sessions, pc, ret, exc, batch_mode, last, terminated, lret, errs, called,
                   saved, resumed, readline, fs, tty, loops, entered, exited, pipe, driver, paths, batch, registry>>

NextGuard == GuardCall

SpecGuard == InitGuard /\ [][NextGuard]_vars

----------------------------------------------------------------------------
(* History file names on their own: every prompt path against every other *)

\* Prompts that handlers of the example shells give their subshells: `kar`
\* gives karPROMPT followed by its arguments, so `kar -DEBUG` gives the third;
\* `debug shell` gives DEBUG.
Fragments == {s_karPROMPT, s_DEBUG, s_karPROMPT \o <<"-">> \o s_DEBUG}

\* The frame sequences of sessions up to MaxFrames levels below the root.
PromptPaths == UNION {[1..n -> Fragments] : n \in 0..MaxFrames}

\* The session that launch_subshell() builds at the end of a chain of
\* launches whose handlers returned the prompts of frames.
SessionAt(frames) ==
    ShellInit("BasicShell", FALSE,
              [i \in DOMAIN frames |-> Mode(i - 1, s_sub, <<>>, frames[i], <<>>)],
              s_root).shell

\* The prompt path of a session: the root label, then the prompt of each frame.
PromptPath(self) ==
    <<self.root_prompt>> \o [i \in DOMAIN self.mode_stack |-> self.mode_stack[i].prompt]

InitNames ==
    /\ \E a \in PromptPaths, b \in PromptPaths :
           paths = [NoNames EXCEPT !.phase = "call", !.a = a, !.b = b]
    /\ batch_mode = FALSE
    /\ sessions = <<GuardShell>>
    /\ pc = "names"
    /\ exc = NoExc
    /\ last = NoLine
    /\ ret = PyNone
    /\ terminated = <<>>
    /\ lret = PyNone
    /\ errs = <<>>
    /\ called = FALSE
    /\ saved = <<>>
    /\ resumed = NoShell
    /\ guard = NoGuard
    /\ readline = Env0.rl
    /\ fs = Env0.fs
    /\ tty = FALSE
    /\ loops = <<>>
    /\ entered = <<>>
    /\ exited = NoExit
    /\ pipe = Unending
    /\ driver = NoDriver
    /\ batch = NoBatch
    /\ registry = NoRegistry

\* The history_fname property is read on the two sessions.
NamesCall ==
    /\ paths.phase = "call"
    /\ paths' = [paths EXCEPT !.phase = "done",
                              !.fa = history_fname(SessionAt(paths.a)),
                              !.fb = history_fname(SessionAt(paths.b))]
    /\ UNCHANGED <<sessions, pc, ret, exc, batch_mode, last, terminated, lret, errs, called,
                   saved, resumed, guard, readline, fs, tty, loops, entered, exited, pipe,
                   driver, batch, registry>>

NextNames == NamesCall

SpecNames == InitNames /\ [][NextNames]_vars

----------------------------------------------------------------------------
(* Session constructions on their own: one process constructs sessions one
   after the other, each running the three builders *)

\* The mode stacks the sessions are constructed with: a root's, and that of
\* a child launched from the root.
BuiltStacks == {<<>>, <<Mode(0, s_sub, <<>>, s_karPROMPT, <<>>)>>}

\* A process that has constructed no session yet: the folder for the history
\* files may be there already or not.
InitRegistry ==
    /\ registry = [NoRegistry EXCEPT !.phase = "on"]
    /\ batch_mode = FALSE
    /\ sessions = <<>>
    /\ pc = "registry"
    /\ exc = NoExc
    /\ last = NoLine
    /\ ret = PyNone
    /\ terminated = <<>>
    /\ lret = PyNone
    /\ errs = <<>>
    /\ called = FALSE
    /\ saved = <<>>
    /\ resumed = NoShell
    /\ guard = NoGuard
    /\ readline = Env0.rl
    /\ \E dir \in BOOLEAN : fs = [Env0.fs EXCEPT !.dir = dir]
    /\ tty = FALSE
    /\ loops = <<>>
    /\ entered = <<>>
    /\ exited = NoExit
    /\ pipe = Unending
    /\ driver = NoDriver
    /\ paths = NoNames
    /\ batch = NoBatch

\* What the construction gave, and the dicts its builder calls leave.
Constructed(cls, mode_stack, reg, start) ==
    registry' = [registry EXCEPT
                    !.built = Append(@, [cls |-> cls,
                                         out |-> ShellFrom(cls, FALSE, mode_stack, s_root, reg)]),
                    !.kept = LeftBy(reg, start)]

\* cls(mode_stack = mode_stack, ...): __init__ makes the history folder if it
\* is not there, then calls the three builders, which bind their dicts and
\* fill them, and stores what they return in the session.
Construct(cls, mode_stack) ==
    /\ registry.phase = "on"
    /\ Len(registry.built) < MaxBuilt
    /\ \E start \in {builder_locals(registry.kept)} :
           \E reg \in {RegistryFrom(cls, start)} : Constructed(cls, mode_stack, reg, start)
    /\ fs' = [fs EXCEPT !.dir = TRUE]
    /\ UNCHANGED <<sessions, pc, ret, exc, batch_mode, last, terminated, lret, errs, called,
                   saved, resumed, guard, readline, tty, loops, entered, exited, pipe,
                   driver, paths, batch>>

NextRegistry == \E cls \in ShellTypes, mode_stack \in BuiltStacks : Construct(cls, mode_stack)

SpecRegistry == InitRegistry /\ [][NextRegistry]_vars

----------------------------------------------------------------------------
(* Properties *)

LineOf(toks) == Join(<<" ">>, toks)

\* The depths from, from - 1, ..., to, in that order (empty when to = from + 1).
Countdown(from, to) == [i \in 1..(from - to + 1) |-> from + 1 - i]

\* C1: `exit` with no arguments in a session at depth d >= 1 ends that
\* session's loop with True; its parent's launch_subshell() then returns a
\* falsy value, the parent is the session that reads next, and the parent is
\* the record (prompt, mode stack, command, helper and completer maps) it was
\* just before the launch.
C1_ExitReturnsToParent ==
    (last.line = s_exit /\ last.depth >= 1) =>
        \/ /\ pc = "returning"
           /\ ret = PyBool(TRUE)
           /\ Len(sessions) = last.depth + 1
           /\ terminated = <<>>
        \/ /\ pc = "reading"
           /\ Len(sessions) = last.depth
           /\ terminated = <<last.depth>>
           /\ ~Truthy(lret)
           /\ Top = resumed
           /\ Prompt(Top) = Prompt(resumed)

C1_Witness ==
    /\ pc = "reading"
    /\ last.line = s_exit
    /\ last.depth = 2
    /\ Len(sessions) = 2
    /\ terminated = <<2>>
    /\ Top = resumed

\* C2: `exit root` or `end` in a session at depth d >= 1 terminates the
\* sessions at depths d, d-1, ..., 1 in that order, each loop returning 'root';
\* the root session does not terminate and is the session that reads next.
C2_ExitRootUnwindsToRoot ==
    (last.line \in {LineOf(<<s_exit, s_root>>), s_end} /\ last.depth >= 1) =>
        \/ /\ pc = "returning"
           /\ ret = PyStr(s_root)
           /\ Len(sessions) >= 2
           /\ terminated = Countdown(last.depth, Len(sessions))
        \/ /\ pc = "reading"
           /\ Len(sessions) = 1
           /\ terminated = Countdown(last.depth, 1)

C2_Witness ==
    /\ pc = "reading"
    /\ last.line = LineOf(<<s_exit, s_root>>)
    /\ last.depth = 3
    /\ Len(sessions) = 1
    /\ terminated = <<3, 2, 1>>

\* C3: `exit all` in a session at depth d >= 0 terminates that session and
\* every ancestor, the root included, each loop returning 'all'; no session
\* reads a line afterwards.
C3_ExitAllEndsEverySession ==
    (last.line = LineOf(<<s_exit, s_all>>)) =>
        \/ /\ pc = "returning"
           /\ ret = PyStr(s_all)
           /\ Len(sessions) >= 1
           /\ terminated = Countdown(last.depth, Len(sessions))
        \/ /\ pc = "done"
           /\ ret = PyStr(s_all)
           /\ sessions = <<>>
           /\ terminated = Countdown(last.depth, 0)

C3_Witness ==
    /\ pc = "done"
    /\ last.line = LineOf(<<s_exit, s_all>>)
    /\ last.depth = 3
    /\ terminated = <<3, 2, 1, 0>>

\* C4: `stack n` with 0 <= n <= d in a session at depth d terminates exactly
\* the sessions at depths d, d-1, ..., n+1, each loop returning n; the session
\* at depth n goes on and reads next; with n = d no session terminates.
C4_StackUnwindsToDepth ==
    \A n \in 0..MaxDepth :
        (last.line = LineOf(<<s_stack, IntStr(n)>>) /\ n <= last.depth) =>
            \/ /\ pc = "returning"
               /\ ret = PyInt(n)
               /\ Len(sessions) >= n + 2
               /\ terminated = Countdown(last.depth, Len(sessions))
            \/ /\ pc = "reading"
               /\ Len(sessions) = n + 1
               /\ terminated = Countdown(last.depth, n + 1)

C4_Witness ==
    /\ pc = "reading"
    /\ last.line = LineOf(<<s_stack, IntStr(1)>>)
    /\ last.depth = 3
    /\ Len(sessions) = 2
    /\ terminated = <<3, 2>>

\* C5: `stack n` with n greater than the depth d of the session is rejected:
\* the session goes on reading at depth d and no session terminates.
C5_DeeperTargetRejected ==
    \A n \in 0..(MaxDepth + 1) :
        (last.line = LineOf(<<s_stack, IntStr(n)>>) /\ n > last.depth) =>
            /\ pc = "reading"
            /\ Len(sessions) = last.depth + 1
            /\ terminated = <<>>

\* C6: when the handler of the dispatched line raises, the loop catches it,
\* writes a traceback to the error sink, and the session goes on reading at
\* the same depth.
C6_HandlerFailureIsCaught ==
    (last.k = "raise") =>
        /\ pc = "reading"
        /\ Len(sessions) = last.depth + 1
        /\ terminated = <<>>
        /\ errs # <<>>
        /\ errs[Len(errs)] = "traceback"
        /\ exc.type # "none"

C6_Witness ==
    /\ last.k = "raise"
    /\ last.line = s_boom
    /\ last.depth = 2
    /\ pc = "reading"
    /\ exc.type = "RuntimeError"

\* C7: when the handler of the dispatched line returns None or any other
\* false-like value, the session goes on reading: it neither terminates nor
\* fails.
C7_FalsyReturnContinues ==
    (last.k = "return" /\ called /\ ~Truthy(last.v)) =>
        /\ pc = "reading"
        /\ Len(sessions) = last.depth + 1
        /\ terminated = <<>>

\* The argument counts an arity rule admits.
Satisfies(nargs, n) ==
    CASE nargs.k = "int" -> n = nargs.n
      [] nargs.k = "list" -> n \in nargs.l
      [] nargs.k = "str" /\ nargs.s = "*" -> TRUE
      [] nargs.k = "str" /\ nargs.s = "?" -> n <= 1
      [] nargs.k = "str" /\ nargs.s = "+" -> n >= 1

\* C8: the guarded handler is invoked, and its result returned, exactly when
\* the argument count satisfies the arity rule; otherwise one message is
\* written to the error sink and None is returned.
C8_ArityGuard ==
    (guard.phase = "done") =>
        /\ guard.called <=> Satisfies(guard.nargs, guard.n)
        /\ guard.called => (guard.result = guard.oracle /\ guard.errs = <<>>)
        /\ ~guard.called => (guard.result = PyNone /\ Len(guard.errs) = 1)

C8_Witness ==
    /\ guard.phase = "done"
    /\ guard.nargs = NargsInt(1)
    /\ guard.n = 2
    /\ ~guard.called
    /\ guard.errs = <<"arity">>

\* The name each shell type with a duplicate declaration declares twice, and
\* the two methods competing for it.
Collisions ==
    { [cls |-> "DupCmdShell", cmd |-> s_x, handlers |-> {"do_a", "do_b"}],
      [cls |-> "DupInheritShell", cmd |-> s_exit, handlers |-> {"_do_exit", "do_quit"}],
      [cls |-> "DupHelperShell", cmd |-> s_x, handlers |-> {"help_a", "help_b"}],
      [cls |-> "DupCompleterShell", cmd |-> s_exit,
       handlers |-> {"_complete_exit", "complete_quit"}] }

\* C9: constructing a session of a type that declares a name twice fails with
\* the configuration error (PyShellError) that identifies the name and both
\* methods.
C9_DuplicateIsConfigurationError ==
    \A c \in Collisions :
        (pc = "aborted" /\ last.cls = c.cls) =>
            /\ exc.type = "PyShellError"
            /\ exc.cmd = c.cmd
            /\ {exc.first, exc.second} = c.handlers

\* C10: the error of a failing session construction is never caught by a
\* dispatch loop: once a construction has failed, at startup or in a launch
\* from a running session, no session goes on reading.
C10_ConstructionErrorNeverCaught ==
    (pc = "aborted" \/ last.k = "launch_failed") => pc \in {"aborted", "raising", "crashed"}

\* The five maps a session object holds.
RegistryOf(self) ==
    [all |-> self.cmd_map_all, visible |-> self.cmd_map_visible,
     internal |-> self.cmd_map_internal, helper |-> self.helper_map,
     completer |-> self.completer_map]

\* Two constructions gave the same: both a session, with the same five
\* maps, or both the same error.
SameRegistry(a, b) ==
    /\ a.ok = b.ok
    /\ a.exc = b.exc
    /\ a.ok => RegistryOf(a.shell) = RegistryOf(b.shell)

\* C11: two session constructions of one shell type in one process give the
\* same command, helper and completer maps, whatever sessions were
\* constructed before and whatever mode stacks the two are given, or fail
\* with the same error both times.
C11_RegistryIsFunctionOfType ==
    \A i, j \in DOMAIN registry.built :
        registry.built[i].cls = registry.built[j].cls =>
            SameRegistry(registry.built[i].out, registry.built[j].out)

\* A root and a child of one type with an internal and a user command have
\* been constructed one after the other.
C11_Witness ==
    /\ Len(registry.built) = 2
    /\ registry.built[1].cls = registry.built[2].cls
    /\ registry.built[1].out.ok
    /\ registry.built[2].out.ok
    /\ registry.built[1].out.shell.mode_stack # registry.built[2].out.shell.mode_stack
    /\ registry.built[2].out.shell.cmd_map_all # EmptyMap
    /\ registry.built[2].out.shell.cmd_map_internal # registry.built[2].out.shell.cmd_map_all

\* Every decorated method a type has, its own and the inherited ones.
RECURSIVE Declared(_)
Declared(cls) ==
    IF cls = "_ShellBase" THEN {} ELSE ClassOwn(cls) \cup Declared(ClassBase(cls))

\* The commands of a type, by name.
CommandsNamed(cls, cmd) ==
    {d \in Declared(cls) : d.kind = "command" /\ \E i \in DOMAIN d.targets : d.targets[i] = cmd}

\* The names a type's internal commands are invoked by.
InternalNames(cls) ==
    UNION {{d.targets[i] : i \in DOMAIN d.targets} :
              d \in {c \in Declared(cls) : c.kind = "command" /\ c.internal}}

\* The shell types that replace parse_line.
Overriding == {"KarShell", "DebuggingShell"}

\* C12: in a session of a type that overrides parse_line, a line that is
\* neither a no-op nor the end of input and whose first default token names an
\* internal command is dispatched to that command with the remaining default
\* tokens as its arguments, whatever the override would return; the handler
\* behind its arity guard runs exactly when the guard admits the tokens. Any
\* other such line is resolved by the override.
C12_InternalCommandsBypassOverride ==
    (last.cls \in Overriding /\ last.via \notin {"none", "noop", "eof"}) =>
        IF shlex_split(last.line)[1] \in InternalNames(last.cls)
        THEN /\ last.via = "internal"
             /\ last.cmd = shlex_split(last.line)[1]
             /\ last.args = SubSeq(shlex_split(last.line), 2, Len(shlex_split(last.line)))
             /\ \A d \in CommandsNamed(last.cls, last.cmd) :
                    called <=> arity_ok(d.nargs, Len(last.args))
        ELSE /\ last.via = "parse_line"
             /\ last.cmd = self_parse_line([cls |-> last.cls], last.line).cmd
             /\ last.args = self_parse_line([cls |-> last.cls], last.line).args

C12_Witness ==
    /\ last.cls = "KarShell"
    /\ last.line = Join(<<" ">>, <<s_exit, s_root>>)
    /\ last.via = "internal"
    /\ last.cmd = s_exit
    /\ last.args = <<s_root>>
    /\ KarShell_parse_line([cls |-> last.cls], last.line).cmd # last.cmd
    /\ called
    /\ pc = "returning"

\* The names a type's commands are invoked by.
CommandNames(cls) ==
    UNION {{d.targets[i] : i \in DOMAIN d.targets} :
              d \in {c \in Declared(cls) : c.kind = "command"}}

\* C13: a line whose resolved command name is in no command map of the
\* session writes the command-not-found message to the error sink, invokes no
\* handler, terminates no session and leaves the session reading its next line.
C13_UnknownCommandIsReported ==
    (last.via \in {"eof", "internal", "parse_line"} /\ last.cmd \notin CommandNames(last.cls)) =>
        /\ errs = <<"command not found">>
        /\ ~called
        /\ last.k = "return"
        /\ last.v = PyNone
        /\ pc = "reading"
        /\ terminated = <<>>
        /\ Len(sessions) = last.depth + 1
        /\ Top.cls = last.cls

C13_Witness ==
    /\ last.line = Join(<<" ">>, <<s_nope, s_x>>)
    /\ last.cmd = s_nope
    /\ last.depth = 2
    /\ errs = <<"command not found">>
    /\ ~called
    /\ pc = "reading"

\* Whether a line is entirely blank or has '#' as its first non-space character.
BlankOrComment(line) == LStrip(line) = <<>> \/ LStrip(line)[1] = "#"

\* C14: in interactive and in batch mode, dispatching a line that is entirely
\* blank or whose first non-space character is '#' is a no-op: nothing is
\* resolved, no handler is invoked, nothing is written to the error sink and
\* the session reads its next line.
C14_BlankOrCommentIsNoOp ==
    (last.via # "none" /\ BlankOrComment(last.line)) =>
        /\ last.via = "noop"
        /\ ~called
        /\ errs = <<>>
        /\ last.v = PyNone
        /\ pc = "reading"
        /\ terminated = <<>>

\* Everything one pass of the loop leaves behind for a dispatched line with
\* outcome out: the outcome, what the loop does next, the session, and the
\* editing facility and history folder.
PassResult(self, line, out) ==
    [out |-> out,
     next |-> IF out.k = "raise" THEN "raise" ELSE cmdloop_decide(self, out.v),
     self |-> self_after(self, line),
     env |-> env_after_resolved(self, resolution(self, line), Env(readline, fs))]

PassOn(self, line) == PassResult(self, line, loop_try(exec_line(self, line, PyNone)))

\* The messages print_debug() writes when sessions are entered and left.
Traces == {"Leave parent shell", "Enter subshell", "Leave subshell", "Enter parent shell"}

\* The dispatch has written nothing to the error sink: while no session has
\* ended the sink is empty, and afterwards it holds nothing but the traces
\* of the sessions that ended, which are written only with debugging on.
OnlyTraces ==
    /\ terminated = <<>> => errs = <<>>
    /\ \A i \in DOMAIN errs : errs[i] \in Traces

\* C15: in every session that waits for a line, whatever its depth and type,
\* with or without a parse_line override, dispatching the end-of-input line
\* and dispatching the literal line `exit` give the same directive, the same
\* output, the same decision of the loop and the same session, facility and
\* folder; and an end-of-input line that was dispatched ran the `exit`
\* command with no arguments, which returned True.
C15_EndOfInputIsExit ==
    /\ pc = "input" => PassOn(Top, EOF) = PassOn(Top, s_exit)
    /\ last.line = EOF =>
          /\ last.via = "eof"
          /\ last.cmd = s_exit
          /\ last.args = <<>>
          /\ called
          /\ OnlyTraces
          /\ last.v = PyBool(TRUE)
          /\ pc \in {"returning", "reading", "done"}
          /\ pc = "reading" => terminated = <<last.depth>>

C15_Witness ==
    /\ last.line = EOF
    /\ last.cls = "KarShell"
    /\ last.depth = 1
    /\ last.cmd = s_exit
    /\ pc = "reading"
    /\ terminated = <<1>>
    /\ Len(sessions) = 1

\* The commands of a type registered through @subshell.
SubshellCommands(cls) == {d \in Declared(cls) : d.kind = "command" /\ d.sub # "-"}

\* What the step of the loop that dispatched a line to the @subshell command d
\* must satisfy.
C16_Step(d) ==
    /\ \A oracle \in OraclesResolved(Top, last') :
          HandlerBody(Top, d, last'.cmd, last'.args, oracle).k = "return" =>
              IF Truthy(HandlerBody(Top, d, last'.cmd, last'.args, oracle).v)
              THEN subshell_inner_func(Top, d, last'.cmd, last'.args, oracle).k = "launch"
              ELSE subshell_inner_func(Top, d, last'.cmd, last'.args, oracle)
                       = Return(PyNone, HandlerBody(Top, d, last'.cmd, last'.args, oracle).err,
                                TRUE)
    /\ last'.k = "return" =>
          /\ \E oracle \in OraclesResolved(Top, last') :
                ~Truthy(HandlerBody(Top, d, last'.cmd, last'.args, oracle).v)
          /\ Len(sessions') = Len(sessions)
          /\ \A i \in DOMAIN sessions : sessions'[i].mode_stack = sessions[i].mode_stack
          /\ fs' = fs
          /\ readline' = readline
          /\ loops' = loops
          /\ saved' = saved
          /\ last'.v = PyNone
          /\ terminated' = <<>>
          /\ pc' = "reading"
    /\ last'.k \in {"launch", "launch_failed"} =>
          \E oracle \in OraclesResolved(Top, last') :
              Truthy(HandlerBody(Top, d, last'.cmd, last'.args, oracle).v)
    /\ Len(sessions') > Len(sessions) => last'.k = "launch"

\* C16: when the handler of a command registered through @subshell returns a
\* falsy value (None, False, 0, '', [] or {}), no session is created, no mode
\* frame is pushed, the history folder and the editing facility stay as they
\* are and the session reads its next line; a child is launched only when the
\* handler returned a truthy prompt.
C16_FalsyHandlerLaunchesNothing ==
    [][\A d \in SubshellCommands(last'.cls) :
          (/\ pc = "input"
           /\ last'.via \in {"internal", "parse_line"}
           /\ \E i \in DOMAIN d.targets : d.targets[i] = last'.cmd
           /\ called') => C16_Step(d)]_vars

C16_Witness ==
    /\ last.cls = "ProbeShell"
    /\ last.cmd = s_maybe
    /\ last.k = "return"
    /\ called
    /\ pc = "reading"
    /\ last.depth = 1
    /\ Len(sessions) = 2
    /\ history_fname(Top) \notin DOMAIN fs.files
    /\ history_fname(sessions[1]) \in DOMAIN fs.files

\* What a launch from the session parent that created the session child must
\* satisfy: the child's stack is the parent's with one frame appended, and the
\* frame records the parent, the command, its arguments, the prompt the
\* handler returned and the context.
C17_Launched(parent, child) ==
    /\ Len(sessions') = Len(sessions) + 1
    /\ Depth(child) = Depth(parent) + 1
    /\ SubSeq(child.mode_stack, 1, Depth(parent)) = parent.mode_stack
    /\ child.mode_stack[Depth(child)].shell = Depth(parent)
    /\ child.mode_stack[Depth(child)].cmd = last'.cmd
    /\ child.mode_stack[Depth(child)].args = last'.args
    /\ child.mode_stack[Depth(child)].context = <<>>
    /\ \A d \in CommandsNamed(parent.cls, last'.cmd) :
          \E oracle \in OraclesResolved(parent, last') :
              /\ Truthy(HandlerBody(parent, d, last'.cmd, last'.args, oracle).v)
              /\ child.mode_stack[Depth(child)].prompt
                     = HandlerBody(parent, d, last'.cmd, last'.args, oracle).v.s

\* C17: a launch from a parent with mode stack s gives the child the stack s
\* with exactly one frame appended, which records the parent, the invoking
\* command, its arguments, the prompt and the context, so the child is one
\* level deeper; no step changes the mode stack of a session that exists
\* before and after it; every session's stack extends its parent's, every
\* parent's stack is the one it had at the launch, and a parent that is
\* resumed has the stack it had before the launch.
C17_ModeStackExtendedNeverShared ==
    [][/\ \A i \in DOMAIN sessions \cap DOMAIN sessions' :
             sessions'[i].mode_stack = sessions[i].mode_stack
       /\ Len(sessions') > Len(sessions) =>
             C17_Launched(sessions[Len(sessions)], sessions'[Len(sessions')])
       /\ \A i \in DOMAIN sessions' :
             /\ Depth(sessions'[i]) = i - 1
             /\ i > 1 => /\ SubSeq(sessions'[i].mode_stack, 1, i - 2) = sessions'[i - 1].mode_stack
                         /\ saved'[i - 1].mode_stack = sessions'[i - 1].mode_stack
       /\ (resumed' # NoShell /\ sessions' # <<>>) =>
             sessions'[Len(sessions')].mode_stack = resumed'.mode_stack]_vars

C17_Witness ==
    /\ Len(sessions) = 3
    /\ last.k = "launch"
    /\ sessions[1].mode_stack = <<>>
    /\ sessions[2].mode_stack = <<Mode(0, s_kar, <<s_x>>, s_karPROMPT \o s_x, <<>>)>>
    /\ sessions[3].mode_stack =
           sessions[2].mode_stack \o <<Mode(1, s_debug, <<s_shell>>, s_DEBUG, <<>>)>>

\* C18: whenever a cmdloop() at any depth has just ended, by returning any
\* directive or by an exception, with or without children having run inside
\* it, the editing facility's completer and completer delimiters are the ones
\* that loop found when it was entered.
C18_FacilityRestoredOnExit ==
    terminated # <<>> =>
        /\ readline.completer = exited.completer
        /\ readline.delims = exited.delims
        /\ Len(loops) = Len(sessions)
        /\ Len(entered) = Len(sessions)
        /\ pc = "done" => /\ readline.completer = no_completer
                          /\ readline.delims = default_delims

C18_Witness ==
    /\ pc = "done"
    /\ terminated = <<2, 1, 0>>
    /\ readline.completer = no_completer
    /\ readline.delims = default_delims
    /\ exited.delims = default_delims
    /\ non_delims \cap default_delims # {}

\* The content of a session's history file, or none.
HistoryFile(self) ==
    IF history_fname(self) \in DOMAIN fs.files THEN fs.files[history_fname(self)] ELSE <<>>

\* C19: when a child's cmdloop() has returned and control is back in its
\* parent P, the history buffer is the content of P's history file, which is
\* the buffer P had when it launched the child, or the buffer is empty if that
\* file no longer exists; what was typed in the child is in the child's file,
\* not in P's buffer.
C19_ParentHistoryRestored ==
    (resumed # NoShell /\ sessions # <<>>) =>
        /\ readline.history = HistoryFile(Top)
        /\ history_fname(Top) \in DOMAIN fs.files => readline.history = exited.history
        /\ history_fname(Top) \notin DOMAIN fs.files => readline.history = <<>>
        /\ Top = resumed

C19_Witness ==
    /\ resumed # NoShell
    /\ Len(sessions) = 2
    /\ terminated = <<2>>
    /\ readline.history = <<s_nope, s_sub>>
    /\ exited.history = <<s_nope, s_sub>>
    /\ HistoryFile([Top EXCEPT !.mode_stack = Append(@, Mode(1, s_sub, <<>>, s_P, <<>>))])
           = <<s_nope, s_exit>>

\* C20: `history clearall`, dispatched in a session at any depth, once or
\* again, leaves the history folder existing and empty and the session
\* reading its next line; from then on the folder exists in every state, so
\* every return to a parent reloads and every loop exit flushes without an
\* error, nothing is written to the error sink for it, and each parent goes on
\* reading.
C20_ClearAllIsSafe ==
    /\ (last.cmd = s_history /\ last.args = <<s_clearall>>) =>
          /\ called
          /\ last.k = "return"
          /\ errs = <<>>
          /\ fs.dir
          /\ fs.files = NoFiles
          /\ readline.history = <<>>
          /\ pc = "reading"
          /\ terminated = <<>>
          /\ Len(sessions) = last.depth + 1
    /\ fs.dir
    /\ exc = NoExc
    /\ "traceback" \notin {errs[i] : i \in DOMAIN errs}
    /\ pc \notin {"raising", "crashed", "aborted"}
    /\ (resumed # NoShell /\ sessions # <<>>) => pc = "reading"

\* A parent resumed after `history clearall` in its child: its own file is
\* gone, the child's flush has written the child's file into the new folder.
C20_Witness ==
    /\ resumed # NoShell
    /\ Len(sessions) = 2
    /\ pc = "reading"
    /\ fs.dir
    /\ history_fname(Top) \notin DOMAIN fs.files
    /\ history_fname(sessions[1]) \notin DOMAIN fs.files
    /\ fs.files # NoFiles
    /\ readline.history = <<>>

ExitRoot == Join(<<" ">>, <<s_exit, s_root>>)
StackZero == Join(<<" ">>, <<s_stack, IntStr(0)>>)

\* What dispatching a line whose handler returns v does to the chain: what the
\* handler writes and leaves, and the decision of each loop from the deepest
\* session down, the parents deciding on what launch_subshell() passes on.
Unwinding(line, v) ==
    [out |-> [PassOn(Top, line).out EXCEPT !.v = PyNone],
     self |-> PassOn(Top, line).self,
     env |-> PassOn(Top, line).env,
     value |-> PassOn(Top, line).out.v = v,
     next |-> [i \in DOMAIN sessions |->
                  cmdloop_decide(sessions[i], IF i = Len(sessions) THEN v ELSE launch_return(v))]]

\* C28: in every session that waits for a line, at every depth, `exit root`
\* and `stack 0` do the same: the handlers write the same, every loop of the
\* chain decides the same on the two directives, so the same sessions
\* terminate, in the same order, and the root, which continues on both, is the
\* session that reads next.
C28_ExitRootIsStackZero ==
    /\ pc = "input" =>
          /\ Unwinding(ExitRoot, PyStr(s_root)) = Unwinding(StackZero, PyInt(0))
          /\ Unwinding(ExitRoot, PyStr(s_root)).value
          /\ Unwinding(ExitRoot, PyStr(s_root)).next[1] = "continue"
          /\ \A i \in 2..Len(sessions) : Unwinding(StackZero, PyInt(0)).next[i] = "break"
    /\ last.line \in {ExitRoot, StackZero} =>
          /\ OnlyTraces
          /\ called
          /\ pc \in {"reading", "returning"}
          /\ pc = "returning" => /\ Len(sessions) > 1
                                 /\ terminated = Countdown(last.depth, Len(sessions))
          /\ pc = "reading" => /\ Len(sessions) = 1
                               /\ terminated = Countdown(last.depth, 1)
                               /\ sessions[1].mode_stack = <<>>

C28_Witness ==
    /\ last.line = StackZero
    /\ last.depth = 3
    /\ terminated = <<3, 2, 1>>
    /\ Len(sessions) = 1
    /\ pc = "reading"
    /\ lret = PyInt(0)

\* The lines BasicShell.__dump_stack has written to self.stdout when it
\* returns or fails: the root label, and nothing for a frame, because the
\* first frame's prompt_display is not an attribute of _Mode.
dump_stack_out(self) == <<<<"0", " ", " ", " ", " ">> \o self.root_prompt>>

\* C29: `stack` with no arguments in a session at depth d writes the mode
\* stack to the output sink as d + 1 lines, writes nothing to the error sink,
\* and the session reads its next line.
C29_StackDumpsEveryFrame ==
    (last.cmd = s_stack /\ last.args = <<>> /\ called) =>
        /\ last.k = "return"
        /\ errs = <<>>
        /\ pc = "reading"
        /\ terminated = <<>>
        /\ Len(sessions) = last.depth + 1
        /\ Len(dump_stack_out(Top)) = last.depth + 1

\* C30: reading the context property in a session, as the `context` command
\* of FooShell does, does not fail: the session reads its next line with
\* nothing written to the error sink, the root session included.
C30_ContextNeverFails ==
    (last.cmd = s_context /\ called) =>
        /\ last.k = "return"
        /\ errs = <<>>
        /\ exc = NoExc
        /\ pc = "reading"

\* C27: in batch mode, once the lines sent through the pipe are used up and
\* a session waits for its next line, the root's cmdloop() eventually returns
\* with no session left, however deep the lines have nested the sessions; and
\* from the moment the pipe is empty the chain of sessions changes only by
\* losing its deepest session.
C27_BatchTerminates ==
    /\ (pipe.finite /\ pipe.lines = <<>> /\ pc = "input") ~> (pc = "done" /\ sessions = <<>>)
    /\ [][(pipe.finite /\ pipe.lines = <<>> /\ sessions' # sessions) =>
              sessions' = SubSeq(sessions, 1, Len(sessions) - 1)]_vars

C27_Witness ==
    /\ pipe.finite
    /\ pipe.lines = <<>>
    /\ last.line = EOF
    /\ last.depth = 3
    /\ terminated = <<3>>
    /\ Len(sessions) = 3
    /\ pc = "reading"

\* The deepest session is the one that served the recorded driver call.
Serving == driver.phase = "called" /\ driver.owner = Len(sessions)

\* The recorded call went to the help overlay: the stripped line ends in '?'.
HelpLine == LStrip(driver.line) # <<>> /\ driver.line[Len(driver.line)] = "?"

\* The tokens of the recorded line buffer.
DriverToks == shlex_split(LStrip(driver.line))

\* The recorded call completes a command name: nothing typed, or a first
\* token still being typed.
FirstToken ==
    /\ ~HelpLine
    /\ DriverToks = <<>> \/ (Len(DriverToks) = 1 /\ driver.text = DriverToks[1])

\* The visible command names of a session that start with the text.
VisibleMatches(self, text) == {c \in DOMAIN self.cmd_map_visible : StartsWith(c, text)}

\* C21: while a cycle completes a command name, every candidate handed out is a
\* visible command name of the session that starts with the text and none is
\* handed out twice; when the cycle has ended, every such name has been handed
\* out. A hidden or non-matching name never appears.
C21_CommandCandidates ==
    (Serving /\ FirstToken) =>
        /\ \A i, j \in DOMAIN driver.got : driver.got[i] = driver.got[j] => i = j
        /\ {driver.got[i] : i \in DOMAIN driver.got} \subseteq VisibleMatches(Top, driver.text)
        /\ driver.answer.k # "str" =>
               {driver.got[i] : i \in DOMAIN driver.got} = VisibleMatches(Top, driver.text)

\* A cycle on `d` in a HelpShell has ended having handed out `doc` alone: the
\* hidden `dark` is left out.
C21_Witness ==
    /\ Serving
    /\ FirstToken
    /\ Top.cls = "HelpShell"
    /\ driver.line = <<"d">>
    /\ s_dark \in DOMAIN Top.cmd_map_all
    /\ driver.answer.k # "str"
    /\ driver.got = <<s_doc>>

\* C22: a driver call that completes returns the cached candidate at the
\* position readline asks for when the cache is that long, and else returns
\* None, the "no more" answer, without raising: also at position 0 of a cache
\* that is empty, or that is the None a completer returned.
C22_CandidateOrNoMore ==
    (Serving /\ ~HelpLine) =>
        IF Top.completion_candidates.t = "list" /\ driver.state < Len(Top.completion_candidates.l)
        THEN driver.answer = Answer("str", Top.completion_candidates.l[driver.state + 1], "-")
        ELSE driver.answer.k = "None"

\* The completer registered for a command that is being completed raises.
CompleterRaises ==
    /\ Serving
    /\ ~HelpLine
    /\ ~FirstToken
    /\ driver.state = 0
    /\ DriverToks[1] \in DOMAIN Top.completer_map
    /\ completer_method(Top, Top.completer_map[DriverToks[1]], DriverToks[1],
                        completer_args(DriverToks, driver.text), driver.text, <<>>).k = "raise"

\* C23: when the registered completer raises, a diagnostic is on the error
\* sink, the cache holds no candidate and the driver call returns without
\* raising.
C23_CompleterFailureContained ==
    CompleterRaises =>
        /\ driver.err # <<>>
        /\ Top.completion_candidates = PyListOf(<<>>)
        /\ driver.answer.k # "raise"

\* The tokens of a help request: those of the line without its final '?'.
HelpToks == shlex_split(SubSeq(LStrip(driver.line), 1, Len(LStrip(driver.line)) - 1))

\* The helper registered for the command of a help request raises.
HelperRaises ==
    /\ Serving
    /\ HelpLine
    /\ Strip(driver.line) # <<"?">>
    /\ HelpToks[1] \in DOMAIN Top.helper_map
    /\ helper_method(Top, Top.helper_map[HelpToks[1]], HelpToks[1], Tail(HelpToks)).k = "raise"

\* C24: when the registered helper raises, a diagnostic is on the error sink,
\* the driver call returns without raising, and the last writes to the output
\* sink are the prompt and the typed line.
C24_HelperFailureContained ==
    HelperRaises =>
        /\ driver.err # <<>>
        /\ driver.answer.k # "raise"
        /\ Len(driver.out) >= 2
        /\ SubSeq(driver.out, Len(driver.out) - 1, Len(driver.out))
               = <<Plain(Prompt(Top)), Plain(LStrip(driver.line))>>

\* The recorded call is a help request for a command, and the help resolver
\* returned a message.
HelpResolved ==
    /\ Serving
    /\ HelpLine
    /\ Strip(driver.line) # <<"?">>
    /\ driver.answer.k = "None"

\* C25: the message written for the tokens of a help request is the text of
\* the helper registered for the command (help_doc answers with the tokens),
\* also when the command's method has a doc string; without a helper it is the doc string of the command's
\* method, dedented, when the command is known and has one; and otherwise it
\* is the default message, which holds the tokens.
C25_HelpResolutionOrder ==
    HelpResolved =>
        IF HelpToks[1] \in DOMAIN Top.helper_map
        THEN driver.out[2] = Plain(Join(<<" ">>, HelpToks))
        ELSE IF /\ HelpToks[1] \in DOMAIN Top.cmd_map_all
                /\ MethodDoc(Top.cmd_map_all[HelpToks[1]]) # <<>>
        THEN driver.out[2] = dedent(MethodDoc(Top.cmd_map_all[HelpToks[1]]))
        ELSE /\ driver.out[2][1] = TextLine(0, <<"No help message is found for:">>)
             /\ driver.out[2][2] = TextLine(4, Join(<<" ">>, HelpToks))

\* `doc?` in a HelpShell: the command has a doc string and a helper, and the
\* helper's text is what was written.
C25_Witness ==
    /\ HelpResolved
    /\ Top.cls = "HelpShell"
    /\ driver.line = s_doc \o <<" ", "x", "?">>
    /\ MethodDoc(Top.cmd_map_all[s_doc]) # <<>>
    /\ driver.out[2] = Plain(s_doc \o <<" ", "x">>)

\* A class, its __bases__[0], and so on up to object.
RECURSIVE Lineage(_)
Lineage(cls) == IF cls = "object" THEN <<cls>> ELSE <<cls>> \o Lineage(ClassBase(cls))

\* C26: a bare '?' writes the doc string of the session's type, or of the
\* nearest type up its lineage that has one, and the call returns: the walk
\* up the lineage ends.
C26_BareHelpDoc ==
    (Serving /\ HelpLine /\ Strip(driver.line) = <<"?">>) =>
        /\ driver.answer.k = "None"
        /\ \E i \in DOMAIN Lineage(Top.cls) :
               /\ ClassDoc(Lineage(Top.cls)[i]) # <<>>
               /\ \A j \in 1..(i - 1) : ClassDoc(Lineage(Top.cls)[j]) = <<>>
               /\ driver.out[2] = ClassDoc(Lineage(Top.cls)[i])

\* A bare '?' in a QuietShell, which has no doc string: HelpShell's was written.
C26_Witness ==
    /\ Serving
    /\ Top.cls = "QuietShell"
    /\ ClassDoc("QuietShell") = <<>>
    /\ Strip(driver.line) = <<"?">>
    /\ driver.answer.k = "None"
    /\ driver.out[2] = ClassDoc("HelpShell")

\* The session at position i of the chain has a mode stack of i - 1 frames, so
\* the deepest session, the only one whose loop runs, has the longest.
DeepestIsLongest == \A i \in DOMAIN sessions : Depth(sessions[i]) = i - 1

\* A step in which a line is read is a step of the deepest session: the line
\* it dispatches is recorded at that session's depth.
DeepestDispatches == pc = "input" /\ pc' # "input" => last'.depth = Len(sessions) - 1

\* The chain changes only at its end: a launch adds the child after sessions
\* that stay as they are, and a loop that ends is the deepest one.
ChainIsStack ==
    /\ Len(sessions') > Len(sessions) =>
           /\ pc = "input"
           /\ Len(sessions') = Len(sessions) + 1
           /\ SubSeq(sessions', 1, Len(sessions) - 1) = SubSeq(sessions, 1, Len(sessions) - 1)
    /\ Len(sessions') < Len(sessions) =>
           /\ pc \in {"returning", "raising"}
           /\ sessions' = SubSeq(sessions, 1, Len(sessions) - 1)
           /\ terminated' = Append(terminated, Len(sessions) - 1)

\* C31: the one session that reads input is the deepest of the chain and has
\* the longest mode stack; every line is dispatched by the deepest session, so
\* a session that launched a child dispatches nothing until the child's loop
\* has returned; and sessions end in the reverse order of their creation.
C31_OnlyDeepestRuns ==
    /\ []DeepestIsLongest
    /\ [][DeepestDispatches /\ ChainIsStack]_vars

\* A session at depth 1 reads input again after its child at depth 2 ended.
C31_Witness ==
    /\ Len(sessions) = 2
    /\ Depth(Top) = 1
    /\ terminated = <<2>>
    /\ resumed # NoShell
    /\ pc = "reading"

\* C32: while the deepest session is in its loop, about to read a line or
\* reading it, freshly entered or resumed after children returned, the
\* facility's completer is that session's __driver_stub and its delimiters
\* hold none of '-', '/', '\', '~'.
C32_ReaderOwnsFacility ==
    pc \in {"reading", "input"} =>
        /\ readline.completer = Depth(Top)
        /\ readline.delims \cap {"-", "/", "\\", "~"} = {}

\* A session at depth 1 is about to read again after two loops of children at
\* depth 2 and deeper have ended; the completer is its own.
C32_Witness ==
    /\ pc = "reading"
    /\ Depth(Top) = 1
    /\ terminated = <<3, 2>>
    /\ exited.completer = 1
    /\ readline.completer = 1
    /\ default_delims \cap {"-", "/", "\\", "~"} # {}

\* The line last dispatched is an `exit` or `end` that names no way out: `exit`
\* with one argument other than root and all, `end` with an argument, or
\* either with two arguments or more.
MalformedExit ==
    /\ last.cmd \in {s_exit, s_end}
    /\ last.via # "none"
    /\ \/ last.cmd = s_exit /\ Len(last.args) = 1 /\ last.args[1] \notin {s_root, s_all}
       \/ last.cmd = s_end /\ Len(last.args) >= 1
       \/ Len(last.args) >= 2

\* C33: after a malformed `exit` or `end` no session has ended: the session
\* that dispatched it is still the deepest one and goes on with its loop, and
\* the error sink has received a message.
C33_MalformedExitContinues ==
    MalformedExit =>
        /\ pc = "reading"
        /\ terminated = <<>>
        /\ Len(sessions) = last.depth + 1
        /\ errs # <<>>

\* `end root` at depth 1: the session is still there.
C33_Witness ==
    /\ MalformedExit
    /\ last.cmd = s_end
    /\ last.args = <<s_root>>
    /\ last.depth = 1
    /\ pc = "reading"
    /\ errs # <<>>

\* The recorded call is the first of a cycle and went to the completer
\* registered for the command of the line.
CompleterServed ==
    /\ Serving
    /\ ~HelpLine
    /\ ~FirstToken
    /\ driver.state = 0
    /\ DriverToks[1] \in DOMAIN sessions[driver.owner].completer_map

\* C34: whenever the driver hands a line to a registered completer, the args
\* it passes is a list, namely the tokens after the command name without the
\* word being completed, and the empty list when there are none.
C34_CompleterArgsIsList ==
    CompleterServed =>
        LET args == completer_args(DriverToks, driver.text)
            rest == Tail(DriverToks)
        IN  /\ args.t = "list"
            /\ args.l = IF driver.text # <<>> /\ rest # <<>>
                        THEN SubSeq(rest, 1, Len(rest) - 1)
                        ELSE rest

\* How many times a call occurs in a sequence of calls.
Times(calls, name) == Cardinality({i \in DOMAIN calls : calls[i] = name})

\* The calls by which the finally block of cmdloop() restores the facility.
RestoreCalls == {"set_completer", "write_history_file", "set_completer_delims"}

\* C35: every cmdloop() that is running, reading lines or suspended under a
\* child, has called preloop() exactly once and postloop() not yet; every
\* cmdloop() that has just ended, by a directive or by a failure of preloop()
\* or of the loop, has called preloop() once, then postloop() once, and
\* postloop() before any call that restores the completer, writes the history
\* file or restores the delimiters.
C35_HooksAroundLoop ==
    /\ Len(entered) = Len(sessions)
    /\ \A i \in DOMAIN entered :
           Times(entered[i].calls, "preloop") = 1 /\ Times(entered[i].calls, "postloop") = 0
    /\ exited # NoExit =>
           /\ Times(exited.calls, "preloop") = 1
           /\ Times(exited.calls, "postloop") = 1
           /\ \A i, j \in DOMAIN exited.calls :
                  (exited.calls[i] = "preloop" /\ exited.calls[j] = "postloop") => i < j
           /\ \A i, j \in DOMAIN exited.calls :
                  (exited.calls[i] = "postloop" /\ exited.calls[j] \in RestoreCalls) => i < j

\* A child whose preloop() raised before any line was read: its postloop()
\* ran, the facility was restored, and the launching session reads on.
C35_Witness ==
    /\ pc = "reading"
    /\ terminated = <<1>>
    /\ last.k = "launch"
    /\ last.depth = 0
    /\ exc = hook_exc
    /\ exited.calls = <<"preloop", "postloop", "set_completer", "write_history_file",
                        "set_completer_delims">>
    /\ readline.completer = 0

\* What the step of the loop that dispatched a line to the @subshell command d
\* must satisfy when the number of arguments breaks the arity rule of d.
C36_Step(d) ==
    ~arity_ok(d.nargs, Len(last'.args)) =>
        /\ ~called'
        /\ last'.k = "return"
        /\ last'.v = PyNone
        /\ sessions' = sessions
        /\ loops' = loops
        /\ saved' = saved
        /\ Len(errs') = 1
        /\ terminated' = <<>>
        /\ pc' = "reading"

\* C36: when a line names a command registered through @subshell with an
\* arity rule and the number of its arguments breaks the rule, the handler
\* does not run and nothing is launched: the sessions and their mode stacks
\* stay as they are, one message goes to the error sink and the session reads
\* its next line.
C36_ArityViolationLaunchesNothing ==
    [][\A d \in SubshellCommands(last'.cls) :
          (/\ pc = "input"
           /\ last'.via \in {"internal", "parse_line"}
           /\ \E i \in DOMAIN d.targets : d.targets[i] = last'.cmd) => C36_Step(d)]_vars

\* A line typed one level down to the derived shell that breaks the rule of
\* `foo`, which takes no argument, or of `again`, which takes exactly one.
C36_Witness ==
    /\ pc = "reading"
    /\ last.cls = "LegacyShell"
    /\ last.depth = 1
    /\ last.cmd \in {s_foo, s_again}
    /\ ~arity_ok(Getattr(last.cls, Top.cmd_map_all[last.cmd]).nargs, Len(last.args))
    /\ ~called
    /\ Len(errs) = 1
    /\ Len(sessions) = 2
    /\ Len(Top.mode_stack) = 1

\* The deepest session has just dispatched `old`, the command of LegacyShell
\* marked @deprecated.
DeprecatedDispatched ==
    /\ last.cmd = s_old
    /\ last.cls = "LegacyShell"
    /\ last.via = "parse_line"
    /\ terminated = <<>>
    /\ Len(sessions) = last.depth + 1
    /\ pc \in {"reading", "returning", "raising"}

\* What the same line gives when it names `bye`, the same handler under the
\* same arity rule without the marker.
Unmarked == exec_resolved(Top, [cmd |-> s_bye, args |-> last.args, via |-> last.via], PyNone)

\* C37: a line that names a command marked @deprecated gives the value, and
\* with it the next position of the loop, that the same command without the
\* marker gives; the session itself is left as it was.
C37_DeprecatedSameOutcome ==
    DeprecatedDispatched =>
        /\ last.v = Unmarked.v
        /\ called = Unmarked.called
        /\ errs = loop_try(Unmarked).err
        /\ pc = "returning" <=> cmdloop_decide(Top, Unmarked.v) = "break"

\* C38: batch_string() comes to its end for every content and every capacity
\* of the pipe: all lines are sent, the sending end is closed, the process is
\* started, dispatches the lines and ends, and join() returns.
C38_BatchStringCompletes == <>(batch.phase = "joined")

\* C39: the history files of two sessions have the same name exactly when the
\* sessions have the same prompt path, the root label followed by the prompts
\* of the frames, compared as sequences.
C39_FileNamesFollowPaths ==
    paths.phase = "done" =>
        (paths.fa = paths.fb <=> PromptPath(SessionAt(paths.a)) = PromptPath(SessionAt(paths.b)))

====
